---------------------------- MODULE Spec2Model ----------------------------
(***************************************************************************)
(* A model of the drift-classification and statistical-comparison engine   *)
(* of the manifest-analysis pipeline (analysis.py and the modules it       *)
(* calls).                                                                 *)
(*                                                                         *)
(* Python values are modelled as follows.                                  *)
(*   - a dict is a TLA+ function whose DOMAIN is the set of its keys; the  *)
(*     empty dict is <<>>;                                                 *)
(*   - a str is a TLA+ string; Len, SubSeq and \o act on its characters;   *)
(*   - a float that is a quotient of two integers is kept as the pair      *)
(*     [num, den], compared by cross-multiplication (den > 0).             *)
(*                                                                         *)
(* Five specifications share the variables:                                *)
(*   SpecClassify  one call classify_issue(issue), for every issue shape;  *)
(*   SpecCalls     the calls classify_issue(issue) of the flattening loop, *)
(*                 one after the other;                                    *)
(*   SpecDrift     analyze_drift_quality on a diff-metrics mapping;        *)
(*   SpecUnpaired  analyze_kubescape and print_mwu on their own;           *)
(*   Spec          main() on a results mapping and three input paths that  *)
(*                 may not exist: the checks of the paths,                 *)
(*                 flatten_results, the success rates, then the            *)
(*                 comparators in main's order and analyze_drift_quality.  *)
(*                 analyze_effort_vs_cluster writes none of the variables  *)
(*                 and has no step (no bag of the pool holds               *)
(*                 cluster_lines, so it returns at its line 24).           *)
(***************************************************************************)
EXTENDS Integers, Sequences, FiniteSets, TLC

VARIABLES
    pc,           \* position of the running function
    issue,        \* SpecClassify: the issue record passed to classify_issue
    category,     \* SpecClassify: the value classify_issue returned
    data,         \* SpecDrift: json.load(diff json): stage -> app -> details
    records,      \* SpecDrift: the list `records` of analyze_drift_quality
    stats,        \* SpecDrift: the stage x category count table
    results,      \* Spec: json.load(path): stage -> app -> metrics bag
    df,           \* Spec: the rows flatten_results returned
    comparisons,  \* the paired comparisons performed so far, in order
    mwu_results,  \* Spec: the unpaired comparisons of analyze_kubescape, in order
    success_rates,  \* Spec: the success rates main prints, by stage
    metric_success, \* Spec: the rows of plot_per_metric_success_rates
    summary_rows,   \* Spec: the rows of analyze_llm_human_alignment
    df_align,       \* Spec: the list `records` of analyze_llm_human_alignment
    files,          \* Spec: what os.path.exists answers for the three input paths
    log             \* Spec: the steps main has entered and the skip messages it printed

vars == <<pc, issue, category, data, records, stats, results, df, comparisons,
         mwu_results, success_rates, metric_success, summary_rows,
         df_align, files, log>>

(***************************************************************************)
(* Python str operations.                                                  *)
(***************************************************************************)
UpperChars == "ABCDEFGHIJKLMNOPQRSTUVWXYZ"
LowerChars == "abcdefghijklmnopqrstuvwxyz"

\* str.lower() of one character
LowerOf ==
    [c \in {SubSeq(UpperChars, k, k) : k \in 1..Len(UpperChars)} |->
        LET k == CHOOSE j \in 1..Len(UpperChars) : SubSeq(UpperChars, j, j) = c
        IN  SubSeq(LowerChars, k, k)]

LowerChar(c) == IF c \in DOMAIN LowerOf THEN LowerOf[c] ELSE c

\* s.lower()
RECURSIVE Lower(_)
Lower(s) ==
    IF Len(s) = 0 THEN ""
    ELSE LowerChar(SubSeq(s, 1, 1)) \o Lower(SubSeq(s, 2, Len(s)))

\* `sub in s` for two strings
Contains(sub, s) ==
    \E i \in 0..(Len(s) - Len(sub)) : SubSeq(s, i + 1, i + Len(sub)) = sub

\* Python truthiness of a str
Truthy(s) == s # ""

\* d.get(key, default)
DictGet(d, key, default) == IF key \in DOMAIN d THEN d[key] ELSE default

(***************************************************************************)
(* drift_quality_analysis.classify_issue                                   *)
(***************************************************************************)
Categories == {"Error", "Enhancement", "Noise"}

\* severity = issue.get("reviewed_level") or issue.get("severity_level", "UNKNOWN")
\* (dict.get without a default gives None, which is falsy like "")
EffectiveSeverity_IgnoresReview(i) == DictGet(i, "severity_level", "UNKNOWN")

EffectiveSeverity_DefaultHigh(i) ==
    IF "reviewed_level" \in DOMAIN i /\ Truthy(i["reviewed_level"])
    THEN i["reviewed_level"]
    ELSE DictGet(i, "severity_level", "HIGH")

EffectiveSeverity(i) ==
    IF "reviewed_level" \in DOMAIN i /\ Truthy(i["reviewed_level"])
    THEN i["reviewed_level"]
    ELSE DictGet(i, "severity_level", "UNKNOWN")

\* issue.get(key, "").lower()
LowerField_CaseSensitive(i, key) == DictGet(i, key, "")

LowerField(i, key) == Lower(DictGet(i, key, ""))

\* the three `return "Enhancement"` conditions
IsEnhancement(comment, desc, issue_type, path) ==
    \/ Contains("enhancement", comment) \/ Contains("production ready", comment)
    \/ (Contains("security", desc) /\ Contains("extra", issue_type))
    \/ /\ (Contains("readinessprobe", path) \/ Contains("livenessprobe", path))
       /\ Contains("extra", issue_type)

\* the benign patterns excluded inside the CRITICAL/HIGH branch
IsBenign(comment) ==
    \/ Contains("correctly mapped", comment)
    \/ Contains("local image", comment)
    \/ Contains("different name", comment)

\* severity in ["CRITICAL", "HIGH"]
IsErrorSeverity_WithMedium(severity) == severity \in {"CRITICAL", "HIGH", "MEDIUM"}

IsErrorSeverity(severity) == severity \in {"CRITICAL", "HIGH"}

\* the cascade of returns, given the five locals
Cascade_ErrorFirst(severity, comment, desc, issue_type, path) ==
    IF IsErrorSeverity(severity)
    THEN IF IsBenign(comment) THEN "Noise" ELSE "Error"
    ELSE IF IsEnhancement(comment, desc, issue_type, path) THEN "Enhancement"
    ELSE "Noise"

Cascade_BenignFirst(severity, comment, desc, issue_type, path) ==
    IF IsBenign(comment) THEN "Noise"
    ELSE IF IsEnhancement(comment, desc, issue_type, path) THEN "Enhancement"
    ELSE IF IsErrorSeverity(severity) THEN "Error"
    ELSE "Noise"

Cascade(severity, comment, desc, issue_type, path) ==
    IF IsEnhancement(comment, desc, issue_type, path) THEN "Enhancement"
    ELSE IF IsErrorSeverity(severity)
         THEN IF IsBenign(comment) THEN "Noise" ELSE "Error"
    ELSE "Noise"

\* a classifier that remembers its last answer: once it has returned Error
\* it keeps returning Error
classify_issue_Sticky(i) ==
    IF log # <<>> /\ log[Len(log)].category = "Error" THEN "Error"
    ELSE Cascade(EffectiveSeverity(i),
                 LowerField(i, "comments"),
                 LowerField(i, "severity_description"),
                 LowerField(i, "issue_type"),
                 LowerField(i, "path"))

classify_issue(i) ==
    Cascade(EffectiveSeverity(i),
            LowerField(i, "comments"),
            LowerField(i, "severity_description"),
            LowerField(i, "issue_type"),
            LowerField(i, "path"))

(***************************************************************************)
(* The issue records SpecClassify classifies: every combination of the     *)
(* six optional fields, each absent or holding one of a few texts.         *)
(***************************************************************************)
Absent == "<absent>"

IssueFields == {"reviewed_level", "severity_level", "comments",
                "severity_description", "issue_type", "path"}

ReviewedPool == {"", "INFO", "HIGH"}
SeverityPool == {"CRITICAL", "HIGH", "MEDIUM", "LOW"}
CommentPool  == {"", "enhancement added", "Production Ready chart",
                 "local image used instead", "Correctly Mapped",
                 "uses a different name", "ENHANCEMENT on a local image"}
DescPool     == {"Security context", "cosmetic"}
TypePool     == {"extra", "missing"}
PathPool     == {"spec.containers.livenessProbe", "spec.readinessProbe",
                 "spec.replicas"}

MkIssue(r, s, c, d, t, p) ==
    LET full == [reviewed_level |-> r, severity_level |-> s, comments |-> c,
                 severity_description |-> d, issue_type |-> t, path |-> p]
    IN  [k \in {f \in IssueFields : full[f] # Absent} |-> full[k]]

IssueSet ==
    { MkIssue(r, s, c, d, t, p) :
        r \in ReviewedPool \cup {Absent}, s \in SeverityPool \cup {Absent},
        c \in CommentPool \cup {Absent},  d \in DescPool \cup {Absent},
        t \in TypePool \cup {Absent},     p \in PathPool \cup {Absent} }

InitClassify ==
    /\ pc = "classify"
    /\ issue \in IssueSet
    /\ category = ""
    /\ data = <<>> /\ records = <<>> /\ stats = <<>>
    /\ results = <<>> /\ df = <<>> /\ comparisons = <<>>
    /\ mwu_results = <<>> /\ success_rates = <<>>
    /\ metric_success = <<>> /\ summary_rows = <<>>
    /\ df_align = <<>> /\ files = <<>> /\ log = <<>>

\* category = classify_issue(issue)
ClassifyIssue ==
    /\ pc = "classify"
    /\ category' = classify_issue(issue)
    /\ pc' = "classified"
    /\ UNCHANGED <<issue, data, records, stats, results, df, comparisons, mwu_results, success_rates,
                 metric_success, summary_rows,
                   df_align, files, log>>

NextClassify == ClassifyIssue

SpecClassify == InitClassify /\ [][NextClassify]_vars

(***************************************************************************)
(* SpecCalls: the calls classify_issue(issue) of the loop `for issue in    *)
(* issues` (lines 83-84), one after the other, on issues in any order and  *)
(* with repetitions; log keeps every call with the value it returned.      *)
(***************************************************************************)
\* the number of calls of one run
MaxCalls == 3

\* the issues the loop meets
CallPool ==
    { [severity_level |-> "HIGH", comments |-> "port differs"],
      [severity_level |-> "HIGH", comments |-> "Enhancement added"],
      [severity_level |-> "LOW", comments |-> ""],
      [severity_level |-> "HIGH", reviewed_level |-> "INFO", comments |-> "label order"],
      [severity_level |-> "CRITICAL", comments |-> "uses a local image"],
      [comments |-> "port differs"] }

InitCalls ==
    /\ pc = "classify"
    /\ issue \in CallPool
    /\ category = "" /\ log = <<>>
    /\ data = <<>> /\ records = <<>> /\ stats = <<>>
    /\ results = <<>> /\ df = <<>> /\ comparisons = <<>>
    /\ mwu_results = <<>> /\ success_rates = <<>>
    /\ metric_success = <<>> /\ summary_rows = <<>>
    /\ df_align = <<>> /\ files = <<>>

\* line 84: category = classify_issue(issue)
CallClassifyIssue ==
    /\ pc = "classify"
    /\ category' = classify_issue(issue)
    /\ log' = Append(log, [issue |-> issue, category |-> category'])
    /\ pc' = "classified"
    /\ UNCHANGED <<issue, data, records, stats, results, df, comparisons, mwu_results,
                   success_rates, metric_success, summary_rows, df_align, files>>

\* line 83: the loop takes its next issue
NextIssueOfLoop ==
    /\ pc = "classified"
    /\ Len(log) < MaxCalls
    /\ \E i \in CallPool : issue' = i
    /\ pc' = "classify"
    /\ UNCHANGED <<category, data, records, stats, results, df, comparisons, mwu_results,
                   success_rates, metric_success, summary_rows, df_align, files, log>>

NextCalls == CallClassifyIssue \/ NextIssueOfLoop

SpecCalls == InitCalls /\ [][NextCalls]_vars

(***************************************************************************)
(* Helpers on sequences and on scipy.stats.wilcoxon.                       *)
(***************************************************************************)
\* the elements of `order` that are in S, in that order
InOrder(order, S) == SelectSeq(order, LAMBDA x : x \in S)

\* the concatenation of Op(x) for x in seq
RECURSIVE FlatMap(_, _)
FlatMap(Op(_), seq) ==
    IF seq = <<>> THEN <<>> ELSE Op(Head(seq)) \o FlatMap(Op, Tail(seq))

\* how many elements of seq satisfy P
Count(seq, P(_)) == Len(SelectSeq(seq, P))

\* wilcoxon(x, y, zero_method="wilcox") on the paired differences d (one
\* number per application, only its sign matters here): zero differences
\* are discarded; when none is left the test is undefined and, depending on
\* the installed scipy, raises ValueError or returns NaN.
wilcoxon(d) ==
    IF \E k \in DOMAIN d : d[k] # 0 THEN {"statistic"} ELSE {"ValueError", "nan"}

(***************************************************************************)
(* drift_quality_analysis.analyze_drift_quality                            *)
(***************************************************************************)
MaxApps == 3
AppNames == <<"a", "b", "c", "d", "e", "f">>
Apps == {AppNames[k] : k \in 1..MaxApps}

\* stage_order of main (also of analyze_kubescape)
stage_order == <<"without_ir", "with_ir", "with_ir_corrected",
                 "with_overrides", "with_overrides_corrected">>

TierOrder == <<"CRITICAL", "HIGH", "MEDIUM", "LOW">>

\* stage_order of analyze_drift_quality
drift_stage_order == <<"without_ir", "with_ir", "with_overrides">>

\* the stages the diff-metrics mappings of SpecDrift may hold
DiffStages == <<"without_ir", "with_overrides">>

\* the records one (stage, app, details) contributes to `records`
AppRecords_SeverityOnly(stage, app, details) ==
    IF "issues_by_severity" \notin DOMAIN details THEN <<>>
    ELSE LET by_sev == details["issues_by_severity"]
             TierRecords(severity) ==
                 [k \in 1..Len(by_sev[severity]) |->
                     [stage             |-> stage,
                      app               |-> app,
                      original_severity |-> severity,
                      reviewed_severity |-> DictGet(by_sev[severity][k],
                                                    "reviewed_level", severity),
                      category          |-> IF IsErrorSeverity(severity)
                                            THEN "Error" ELSE "Noise"]]
         IN  FlatMap(TierRecords, InOrder(TierOrder, DOMAIN by_sev))

AppRecords(stage, app, details) ==
    IF "issues_by_severity" \notin DOMAIN details THEN <<>>
    ELSE LET by_sev == details["issues_by_severity"]
             TierRecords(severity) ==
                 [k \in 1..Len(by_sev[severity]) |->
                     [stage             |-> stage,
                      app               |-> app,
                      original_severity |-> severity,
                      reviewed_severity |-> DictGet(by_sev[severity][k],
                                                    "reviewed_level", severity),
                      category          |-> classify_issue(by_sev[severity][k])]]
         IN  FlatMap(TierRecords, InOrder(TierOrder, DOMAIN by_sev))

\* the loop `for stage, apps in data.items(): for app_name, details in ...`
FlattenData(d) ==
    LET StageRecords(stage) ==
            LET OneApp(app) == AppRecords(stage, app, d[stage][app])
            IN  FlatMap(OneApp, InOrder(AppNames, DOMAIN d[stage]))
    IN  FlatMap(StageRecords, InOrder(stage_order, DOMAIN d))

\* existing_stages = [s for s in stage_order if s in df["stage"].unique()]
ExistingStages(recs) ==
    InOrder(drift_stage_order, {recs[k].stage : k \in 1..Len(recs)})

Range(seq) == {seq[k] : k \in 1..Len(seq)}

\* the count table with only the categories that occur in the stage
StatsTable_OmitMissing(recs) ==
    [s \in {recs[k].stage : k \in 1..Len(recs)} \cap {"without_ir", "with_ir", "with_overrides"} |->
        LET occurring == {recs[k].category : k \in {j \in 1..Len(recs) : recs[j].stage = s}}
        IN  [c \in occurring |->
                Cardinality({k \in 1..Len(recs) : recs[k].stage = s /\ recs[k].category = c})]]

\* df.groupby(["stage", "category"]).size().unstack(fill_value=0), with the
\* three category columns added when missing; rows whose stage is not a
\* category of the stage column are left out by groupby
StatsTable(recs) ==
    [s \in Range(ExistingStages(recs)) |->
        [c \in Categories |->
            Count(recs, LAMBDA r : r.stage = s /\ r.category = c)]]

\* the divisor taken as the number of records of the stage
AppsPerStage_CountsRecords(recs) ==
    [s \in {recs[k].stage : k \in 1..Len(recs)} \cap {"without_ir", "with_ir", "with_overrides"} |->
        Cardinality({k \in 1..Len(recs) : recs[k].stage = s})]

\* df.groupby("stage")["app"].nunique()
AppsPerStage(recs) ==
    [s \in Range(ExistingStages(recs)) |->
        Cardinality({recs[k].app : k \in {j \in 1..Len(recs) : recs[j].stage = s}})]

\* stats.div(apps_per_stage, axis=0)
StatsNormalized(table, apps_per_stage) ==
    [s \in DOMAIN table |->
        [c \in DOMAIN table[s] |-> [num |-> table[s][c], den |-> apps_per_stage[s]]]]

\* frame.groupby(["stage", "app"]).size().unstack(fill_value=0): one row per
\* category of the stage column, one column per application of the frame,
\* 0 where the application has no row in the stage; no row at all when the
\* frame is empty
CountsByStageApp(frame, stages) ==
    IF frame = <<>> THEN <<>>
    ELSE [s \in Range(stages) |->
            [a \in {frame[k].app : k \in 1..Len(frame)} |->
                Count(frame, LAMBDA r : r.stage = s /\ r.app = a)]]

\* common_apps = list(set(counts.columns) & set(counts.columns))
CommonApps(counts) ==
    DOMAIN counts["without_ir"] \cap DOMAIN counts["without_ir"]

\* the Wilcoxon block without its `except Exception`
DriftTest_Uncaught(metric, counts) ==
    IF ~({"without_ir", "with_overrides"} \subseteq DOMAIN counts) THEN {<<>>}
    ELSE LET common_apps == DOMAIN counts["without_ir"]
             baseline == [a \in common_apps |-> counts["without_ir"][a]]
             final    == [a \in common_apps |-> counts["with_overrides"][a]]
         IN  { << [fn |-> "analyze_drift_quality", metric |-> metric,
                   stage_a |-> "without_ir", stage_b |-> "with_overrides",
                   apps |-> common_apps, a |-> baseline, b |-> final,
                   ran_test |-> TRUE, outcome |-> w] >>
               : w \in wilcoxon([a \in common_apps |-> baseline[a] - final[a]]) }

\* one Wilcoxon block of analyze_drift_quality on the table `counts`: the
\* comparisons it may log (none when a stage is not in counts.index)
DriftTest(metric, counts) ==
    IF ~({"without_ir", "with_overrides"} \subseteq DOMAIN counts) THEN {<<>>}
    ELSE LET common_apps == CommonApps(counts)
             baseline == [a \in common_apps |-> counts["without_ir"][a]]
             final    == [a \in common_apps |-> counts["with_overrides"][a]]
             d        == [a \in common_apps |-> baseline[a] - final[a]]
         IN  { << [fn       |-> "analyze_drift_quality",
                   metric   |-> metric,
                   stage_a  |-> "without_ir",
                   stage_b  |-> "with_overrides",
                   apps     |-> common_apps,
                   a        |-> baseline,
                   b        |-> final,
                   ran_test |-> TRUE,
                   outcome  |-> IF w = "ValueError" THEN "could_not_perform" ELSE w] >>
               : w \in wilcoxon(d) }

\* lines 95-112: the tables computed from a non-empty `records`
DriftStatistics(recs) ==
    [existing_stages  |-> ExistingStages(recs),
     table            |-> StatsTable(recs),
     apps_per_stage   |-> AppsPerStage(recs),
     stats_normalized |-> StatsNormalized(StatsTable(recs), AppsPerStage(recs))]

\* lines 126-178: the two Wilcoxon blocks, first the error counts, then the
\* total drift counts; an exception of the first block is caught inside it
DriftTests(recs, existing_stages) ==
    LET error_counts ==
            CountsByStageApp(SelectSeq(recs, LAMBDA r : r.category = "Error"),
                             existing_stages)
        total_drift_counts == CountsByStageApp(recs, existing_stages)
    IN  { t1 \o t2 : t1 \in DriftTest("error_count", error_counts),
                     t2 \in DriftTest("total_drift", total_drift_counts) }

\* the details an application of the diff-metrics mapping may hold
ScenarioIssues ==
    [CRITICAL |-> << [severity_level |-> "CRITICAL", comments |-> ""] >>,
     HIGH     |-> << [severity_level |-> "HIGH", comments |-> "enhancement added"] >>,
     LOW      |-> << [severity_level |-> "LOW", comments |-> ""] >>]

DetailsPool ==
    << [issues_by_severity |-> ScenarioIssues],
       [issues_by_severity |->
           [HIGH |-> << [severity_level |-> "HIGH", comments |-> "port differs"],
                        [severity_level |-> "HIGH", reviewed_level |-> "INFO",
                         comments |-> "label order"] >>]],
       [summary |-> "no drift"] >>

\* every mapping stage -> app -> pool[k] over the given stages and Apps (a
\* cell 0 is an application the stage does not hold); a stage with no
\* application is left out of the mapping
Mappings(stages, pool) ==
    LET Cells == [Range(stages) \X Apps -> 0..Len(pool)]
        AppsOf(cells, s) == {a \in Apps : cells[<<s, a>>] # 0}
    IN  { [s \in {t \in Range(stages) : AppsOf(cells, t) # {}} |->
              [a \in AppsOf(cells, s) |-> pool[cells[<<s, a>>]]]] : cells \in Cells }

\* two Error issues of one application
TwoErrors ==
    [issues_by_severity |->
        [HIGH |-> << [severity_level |-> "HIGH", comments |-> "port differs"],
                     [severity_level |-> "HIGH", comments |-> "image differs"] >>]]

\* a stage with 10 records across 5 applications
TenAcrossFive == [without_ir |-> [a \in {"a", "b", "c", "d", "e"} |-> TwoErrors]]

\* application "a" with issues under without_ir and under one other stage
CorrectedStageData ==
    { [without_ir |-> [a |-> DetailsPool[1]]] @@ [x \in {s} |-> [a |-> DetailsPool[k]]]
      : s \in {"with_ir", "with_ir_corrected", "with_overrides_corrected"}, k \in 1..2 }

\* issues listed under a tier without a severity_level of their own, or
\* with one that names another tier
TierListedIssues ==
    [issues_by_severity |->
        [HIGH     |-> << [comments |-> "port differs"] >>,
         CRITICAL |-> << [severity_level |-> "LOW", comments |-> "selector differs"] >>]]

TierListedData ==
    { [without_ir |-> [a |-> TierListedIssues]],
      [without_ir |-> [a |-> TierListedIssues], with_overrides |-> [a |-> DetailsPool[1]]] }

InitDrift ==
    /\ pc = "flatten"
    /\ data \in Mappings(DiffStages, DetailsPool) \cup {TenAcrossFive}
                \cup CorrectedStageData \cup TierListedData
    /\ records = <<>> /\ stats = <<>> /\ comparisons = <<>>
    /\ issue = <<>> /\ category = "" /\ results = <<>> /\ df = <<>>
    /\ mwu_results = <<>> /\ success_rates = <<>>
    /\ metric_success = <<>> /\ summary_rows = <<>>
    /\ df_align = <<>> /\ files = <<>> /\ log = <<>>

\* the input mapping with the category written into every issue
WithCategories(d) ==
    [s \in DOMAIN d |-> [a \in DOMAIN d[s] |->
        IF "issues_by_severity" \notin DOMAIN d[s][a] THEN d[s][a]
        ELSE [d[s][a] EXCEPT !["issues_by_severity"] =
                 [t \in DOMAIN @ |->
                     [k \in 1..Len(@[t]) |->
                         [category |-> classify_issue(@[t][k])] @@ @[t][k]]]]]]

\* a flattening loop that stores the category on the issue it classified
Flatten_StoresCategory ==
    /\ pc = "flatten"
    /\ records' = FlattenData(data)
    /\ data' = WithCategories(data)
    /\ pc' = "stats"
    /\ UNCHANGED <<issue, category, stats, results, df, comparisons, mwu_results,
                   success_rates, metric_success, summary_rows, df_align, files, log>>

\* lines 77-91: the flattening loop
Flatten ==
    /\ pc = "flatten"
    /\ records' = FlattenData(data)
    /\ pc' = "stats"
    /\ UNCHANGED <<issue, category, data, stats, results, df, comparisons, mwu_results, success_rates,
                 metric_success, summary_rows,
                   df_align, files, log>>

\* lines 93-119: df["stage"] raises KeyError when `records` is empty (the
\* frame has no column); otherwise the count tables are built
Statistics ==
    /\ pc = "stats"
    /\ IF records = <<>>
       THEN pc' = "raised" /\ stats' = stats
       ELSE stats' = DriftStatistics(records) /\ pc' = "tests"
    /\ UNCHANGED <<issue, category, data, records, results, df, comparisons, mwu_results, success_rates,
                 metric_success, summary_rows,
                   df_align, files, log>>

\* lines 126-178: the two Wilcoxon blocks
SignificanceTests ==
    /\ pc = "tests"
    /\ \E t \in DriftTests(records, stats.existing_stages) :
          comparisons' = comparisons \o t
    /\ pc' = "done"
    /\ UNCHANGED <<issue, category, data, records, stats, results, df, mwu_results, success_rates,
                 metric_success, summary_rows,
                   df_align, files, log>>

NextDrift == Flatten \/ Statistics \/ SignificanceTests

SpecDrift == InitDrift /\ [][NextDrift]_vars

(***************************************************************************)
(* JSON / Python values of the results mapping.  A value is tagged with    *)
(* its Python type: [t |-> "dict", v |-> f], [t |-> "int", v |-> n], ...   *)
(***************************************************************************)
PyNone    == [t |-> "NoneType"]
PyBool(b) == [t |-> "bool", v |-> b]
PyInt(n)  == [t |-> "int", v |-> n]
PyStr(x)  == [t |-> "str", v |-> x]
PyDict(f) == [t |-> "dict", v |-> f]

\* bool(x)
PyTruth(x) ==
    CASE x.t = "NoneType" -> FALSE
      [] x.t = "bool"     -> x.v
      [] x.t = "int"      -> x.v # 0
      [] x.t = "str"      -> x.v # ""
      [] x.t = "dict"     -> DOMAIN x.v # {}

\* x or y
PyOr(x, y) == IF PyTruth(x) THEN x ELSE y

\* int(x) for the values int() accepts without raising
PyIntOf(x) ==
    CASE x.t = "int"  -> x.v
      [] x.t = "bool" -> IF x.v THEN 1 ELSE 0

\* utils.safe_get(d, *keys, default=default)
RECURSIVE safe_get(_, _, _)
safe_get(d, keys, default) ==
    IF keys = <<>> THEN d
    ELSE IF d.t # "dict" \/ Head(keys) \notin DOMAIN d.v THEN default
    ELSE safe_get(d.v[Head(keys)], Tail(keys), default)

\* d.get(key, default) on a tagged dict
PyGet(d, key, default) == IF key \in DOMAIN d.v THEN d.v[key] ELSE default

(***************************************************************************)
(* utils.flatten_results                                                   *)
(***************************************************************************)
he_candidates == <<"human_effort_ir", "human_effort_overrides",
                   "human_effort", "human-effort">>

\* he_source taken from the last candidate key present
HeSource_LastPresent(metrics) ==
    LET present == InOrder(he_candidates, DOMAIN metrics.v)
    IN  IF present = <<>> THEN PyNone ELSE PyStr(present[Len(present)])

\* he_source: the first candidate key present in the metrics bag, else None
HeSource(metrics) ==
    LET present == InOrder(he_candidates, DOMAIN metrics.v)
    IN  IF present = <<>> THEN PyNone ELSE PyStr(Head(present))

\* he = metrics.get(candidate, {}) or {}
HumanEffort(metrics) ==
    IF HeSource(metrics) = PyNone THEN PyDict(<<>>)
    ELSE PyOr(metrics.v[HeSource(metrics).v], PyDict(<<>>))

\* total_lines reading the bare number only: a {"total": N} value gives 0
total_lines_BareOnly(he, key) ==
    LET val == PyGet(he, key, PyDict(<<>>))
    IN  IF val.t \in {"int", "bool"} THEN PyIntOf(val) ELSE 0

\* flatten_results.total_lines(key): val.get("total", 0) of a dict value,
\* int(val) of a number, else 0
total_lines(he, key) ==
    LET val == PyGet(he, key, PyDict(<<>>))
    IN  IF val.t = "dict" THEN PyIntOf(PyGet(val, "total", PyInt(0)))
        ELSE IF val.t \in {"int", "bool"} THEN PyIntOf(val)
        ELSE 0

\* one element of `rows`
FlatRow(stage, app, metrics) ==
    LET he     == HumanEffort(metrics)
        sk     == PyOr(PyGet(metrics, "skaffold", PyDict(<<>>)), PyDict(<<>>))
        llm    == PyOr(PyGet(metrics, "llm_report", PyDict(<<>>)), PyDict(<<>>))
        manual == PyOr(PyGet(metrics, "manual_review", PyDict(<<>>)), PyDict(<<>>))
        Flag(d, key) == PyTruth(safe_get(d, <<key>>, PyBool(FALSE)))
        Num(keys)    == PyIntOf(PyOr(safe_get(metrics, keys, PyInt(0)), PyInt(0)))
    IN  [stage                    |-> stage,
         app                      |-> app,
         manifests_renderable     |-> Flag(sk, "manifests_renderable"),
         deployment_successful    |-> Flag(sk, "deployment_successful"),
         pods_ready               |-> Flag(sk, "pods_ready"),
         services_accessible      |-> Flag(sk, "services_accessible"),
         llm_aligned_to_intent    |-> Flag(llm, "aligned_to_intent"),
         expected_entrypoint      |-> Flag(manual, "expected_entrypoint"),
         expected_behaviour       |-> Flag(manual, "expected_behaviour"),
         added_lines              |-> total_lines(he, "added_lines"),
         removed_lines            |-> total_lines(he, "removed_lines"),
         modified_lines           |-> total_lines(he, "modified_lines"),
         total_operations         |-> IF PyTruth(he) /\ "total_operations" \in DOMAIN he.v
                                      THEN total_lines(he, "total_operations") ELSE 0,
         kubescape_critical       |-> Num(<<"kubescape", "critical">>),
         kubescape_high           |-> Num(<<"kubescape", "high">>),
         kubescape_medium         |-> Num(<<"kubescape", "medium">>),
         kubescape_low            |-> Num(<<"kubescape", "low">>),
         kubescape_total_controls |-> Num(<<"kubescape", "total_controls">>),
         cluster_lines            |-> Num(<<"cluster_lines">>),
         he_source                |-> HeSource(metrics)]

\* the keys read with int(safe_get(metrics, ...) or 0)
NumericKeys ==
    { <<"kubescape", "critical">>, <<"kubescape", "high">>, <<"kubescape", "medium">>,
      <<"kubescape", "low">>, <<"kubescape", "total_controls">>, <<"cluster_lines">> }

\* building the row of one metrics bag raises: `candidate in metrics` or
\* metrics.get on a bag that is no dict (TypeError, AttributeError), he.get
\* on a human-effort value that is truthy and no dict (AttributeError),
\* int() on a truthy value that is no number (ValueError, TypeError; the
\* strings of the pool are no numerals)
FlatRowRaises(metrics) ==
    \/ metrics.t # "dict"
    \/ HumanEffort(metrics).t # "dict"
    \/ \E keys \in NumericKeys :
          PyOr(safe_get(metrics, keys, PyInt(0)), PyInt(0)).t \notin {"int", "bool"}

\* flatten_results(results) raises: the row of some application does
flatten_results_raises(res) ==
    \E stage \in DOMAIN res : \E app \in DOMAIN res[stage] :
        FlatRowRaises(res[stage][app])

\* the loop emitting one row per stage only
flatten_results_FirstAppOnly(res) ==
    LET StageRows(stage) ==
            LET first == Head(InOrder(AppNames, DOMAIN res[stage]))
            IN  << FlatRow(stage, first, res[stage][first]) >>
    IN  FlatMap(StageRows, InOrder(stage_order, DOMAIN res))

\* the loop over results.items() and apps.items()
flatten_results(res) ==
    LET StageRows(stage) ==
            LET OneApp(app) == << FlatRow(stage, app, res[stage][app]) >>
            IN  FlatMap(OneApp, InOrder(AppNames, DOMAIN res[stage]))
    IN  FlatMap(StageRows, InOrder(stage_order, DOMAIN res))

\* df["fully_successful"] (main, lines 57-60)
fully_successful(row) ==
    /\ row.manifests_renderable /\ row.deployment_successful
    /\ row.pods_ready /\ row.services_accessible

(***************************************************************************)
(* The paired comparators main calls on the flattened frame.               *)
(***************************************************************************)
\* df[df["stage"].isin([s1, s2])].pivot(index="app", columns="stage",
\* values=column).dropna(): the columns are the stages that have a row, the
\* index the applications that have a row in every column
PivotColumns(frame, s1, s2) == {s1, s2} \cap {frame[k].stage : k \in 1..Len(frame)}

PivotDropna(frame, s1, s2) ==
    {a \in {frame[k].app : k \in {j \in 1..Len(frame) : frame[j].stage \in {s1, s2}}} :
        \A s \in PivotColumns(frame, s1, s2) :
            \E k \in 1..Len(frame) : frame[k].stage = s /\ frame[k].app = a}

\* the row of (stage, app)
RowOf(frame, s, a) ==
    frame[CHOOSE k \in 1..Len(frame) : frame[k].stage = s /\ frame[k].app = a]

\* run_mcnemar_pairwise.run_between(s1, s2): the comparison it reports
run_between(frame, s1, s2) ==
    LET sub  == IF PivotColumns(frame, s1, s2) = {s1, s2}
                THEN PivotDropna(frame, s1, s2) ELSE {}
        x    == [a \in sub |-> IF fully_successful(RowOf(frame, s1, a)) THEN 1 ELSE 0]
        y    == [a \in sub |-> IF fully_successful(RowOf(frame, s2, a)) THEN 1 ELSE 0]
        two_by_two == /\ {x[a] : a \in sub} = {0, 1}
                      /\ {y[a] : a \in sub} = {0, 1}
    IN  [fn       |-> "run_mcnemar_pairwise",
         metric   |-> "fully_successful",
         stage_a  |-> s1,
         stage_b  |-> s2,
         apps     |-> sub,
         a        |-> x,
         b        |-> y,
         ran_test |-> sub # {} /\ two_by_two,
         outcome  |-> IF sub = {} THEN "no_paired"
                      ELSE IF two_by_two THEN "statistic"
                      ELSE "insufficient_variability"]

mcnemar_pairs ==
    << <<"without_ir", "with_ir">>, <<"with_ir", "with_ir_corrected">>,
       <<"with_overrides", "with_overrides_corrected">>,
       <<"with_ir", "with_overrides">> >>

\* run_mcnemar_pairwise(df): one comparison per pair whose two stages occur
run_mcnemar_pairwise(frame) ==
    LET stages   == {frame[k].stage : k \in 1..Len(frame)}
        One(pr)  == IF {pr[1], pr[2]} \subseteq stages
                    THEN << run_between(frame, pr[1], pr[2]) >> ELSE <<>>
    IN  FlatMap(One, mcnemar_pairs)

base_corrected_pairs ==
    << <<"with_ir", "with_ir_corrected">>,
       <<"with_overrides", "with_overrides_corrected">> >>

\* len(paired) < 3
MinPairs == 3

\* one iteration of the loop of analyze_human_effort: the set of outcomes it
\* may have, each a comparison or the outcome "KeyError" (paired[corr_stage]
\* or paired[base_stage] when the pivot lacks that column)
HumanEffortPair(frame, base_stage, corr_stage) ==
    LET cols   == PivotColumns(frame, base_stage, corr_stage)
        paired == PivotDropna(frame, base_stage, corr_stage)
    IN  IF paired = {} \/ Cardinality(paired) < MinPairs
        THEN { [fn       |-> "analyze_human_effort",
                metric   |-> "total_operations",
                stage_a  |-> base_stage,
                stage_b  |-> corr_stage,
                apps     |-> paired,
                a        |-> <<>>,
                b        |-> <<>>,
                ran_test |-> FALSE,
                outcome  |-> "insufficient"] }
        ELSE IF cols # {base_stage, corr_stage} THEN { [outcome |-> "KeyError"] }
        ELSE LET x == [a \in paired |-> RowOf(frame, base_stage, a).total_operations]
                 y == [a \in paired |-> RowOf(frame, corr_stage, a).total_operations]
                 d == [a \in paired |-> x[a] - y[a]]
             IN  { [fn       |-> "analyze_human_effort",
                    metric   |-> "total_operations",
                    stage_a  |-> base_stage,
                    stage_b  |-> corr_stage,
                    apps     |-> paired,
                    a        |-> x,
                    b        |-> y,
                    ran_test |-> TRUE,
                    outcome  |-> IF w = "ValueError" THEN "nan" ELSE w]
                   : w \in wilcoxon(d) }

(***************************************************************************)
(* kubescape_analysis.analyze_kubescape and statistical_tests.print_mwu    *)
(***************************************************************************)
\* len(d1) < 2 or len(d2) < 2
MinGroup == 2

\* the applications with an entry in the `records` that analyze_kubescape
\* builds for a stage: those whose total_controls is truthy
KubescapeRecords(res, stage) ==
    IF stage \notin DOMAIN res THEN {}
    ELSE {app \in DOMAIN res[stage] :
             PyTruth(safe_get(safe_get(res[stage][app], <<"kubescape">>, PyDict(<<>>)),
                              <<"total_controls">>, PyInt(0)))}

test_pairs ==
    << <<"without_ir", "with_ir">>, <<"without_ir", "with_overrides">>,
       <<"with_ir", "with_ir_corrected">>,
       <<"with_overrides", "with_overrides_corrected">>,
       <<"with_ir", "with_overrides">>,
       <<"with_ir_corrected", "with_overrides_corrected">> >>

\* one iteration of the loop over test_pairs, on groups of n1 and n2
\* observations
MwuPair(s1, s2, n1, n2) ==
    IF n1 < MinGroup \/ n2 < MinGroup
    THEN [fn |-> "analyze_kubescape", stage_1 |-> s1, stage_2 |-> s2,
          n1 |-> n1, n2 |-> n2, ran_test |-> FALSE, outcome |-> "insufficient"]
    ELSE [fn |-> "analyze_kubescape", stage_1 |-> s1, stage_2 |-> s2,
          n1 |-> n1, n2 |-> n2, ran_test |-> TRUE, outcome |-> "statistic"]

\* the loop over test_pairs leaving at the first pair without enough data
analyze_kubescape_StopAtInsufficient(res) ==
    LET n(stage) == Cardinality(KubescapeRecords(res, stage))
        all == [k \in 1..Len(test_pairs) |->
                   MwuPair(test_pairs[k][1], test_pairs[k][2],
                           n(test_pairs[k][1]), n(test_pairs[k][2]))]
        stop == {k \in 1..Len(all) : ~all[k].ran_test}
    IN  IF stop = {} THEN all
        ELSE SubSeq(all, 1, CHOOSE k \in stop : \A j \in stop : k <= j)

\* analyze_kubescape(results, fig_dir): what it reports, pair by pair, or
\* the single report "no_data" when no record was built
analyze_kubescape(res) ==
    LET n(stage) == Cardinality(KubescapeRecords(res, stage))
        One(pr)  == << MwuPair(pr[1], pr[2], n(pr[1]), n(pr[2])) >>
    IN  IF \A stage \in DOMAIN res : KubescapeRecords(res, stage) = {}
        THEN << [fn |-> "analyze_kubescape", stage_1 |-> "", stage_2 |-> "",
                 n1 |-> 0, n2 |-> 0, ran_test |-> FALSE, outcome |-> "no_data"] >>
        ELSE FlatMap(One, test_pairs)

\* print_mwu without its guard on the two group sizes
print_mwu_NoGuard(label, grp_success, grp_fail) ==
    [fn |-> "print_mwu", label |-> label,
     n1 |-> Len(grp_success), n2 |-> Len(grp_fail),
     ran_test |-> TRUE, outcome |-> "statistic"]

\* print_mwu(label, grp_success, grp_fail): what it prints
print_mwu(label, grp_success, grp_fail) ==
    IF Len(grp_success) >= MinGroup /\ Len(grp_fail) >= MinGroup
    THEN [fn |-> "print_mwu", label |-> label,
          n1 |-> Len(grp_success), n2 |-> Len(grp_fail),
          ran_test |-> TRUE, outcome |-> "statistic"]
    ELSE [fn |-> "print_mwu", label |-> label,
          n1 |-> Len(grp_success), n2 |-> Len(grp_fail),
          ran_test |-> FALSE, outcome |-> "insufficient"]

(***************************************************************************)
(* kubescape_analysis.analyze_kubescape_paired                             *)
(***************************************************************************)
\* rank_biserial_from_wilcoxon(deltas), deltas given by their numerators
\* (the denominators are positive); the result is the quotient num/den
rank_biserial_from_wilcoxon_Reversed(deltas) ==
    LET pos == Cardinality({k \in DOMAIN deltas : deltas[k] > 0})
        neg == Cardinality({k \in DOMAIN deltas : deltas[k] < 0})
    IN  IF pos + neg = 0 THEN [num |-> 0, den |-> 1]
        ELSE [num |-> neg - pos, den |-> pos + neg]

rank_biserial_from_wilcoxon(deltas) ==
    LET pos     == Cardinality({k \in DOMAIN deltas : deltas[k] > 0})
        neg     == Cardinality({k \in DOMAIN deltas : deltas[k] < 0})
        n_pairs == pos + neg
    IN  IF n_pairs = 0 THEN [num |-> 0, den |-> 1]
        ELSE [num |-> pos - neg, den |-> n_pairs]

\* the entry appended to `rows` for (stage, app), or none when
\* total_controls is not positive
KubescapeRows(res, stage) ==
    LET apps == IF stage \in DOMAIN res THEN res[stage] ELSE <<>>
        Ks(app)    == PyOr(PyGet(apps[app], "kubescape", PyDict(<<>>)), PyDict(<<>>))
        IntAt(d, k) == PyIntOf(PyOr(PyGet(d, k, PyInt(0)), PyInt(0)))
    IN  [app \in {x \in DOMAIN apps : IntAt(Ks(x), "total_controls") > 0} |->
            [failed         |-> IntAt(Ks(app), "critical") + IntAt(Ks(app), "high")
                                + IntAt(Ks(app), "medium") + IntAt(Ks(app), "low"),
             total_controls |-> IntAt(Ks(app), "total_controls")]]

\* analyze_kubescape_paired(results, fig_dir, stage_a, stage_b): the
\* outcomes it may have
analyze_kubescape_paired(res, stage_a, stage_b) ==
    LET rows_a == KubescapeRows(res, stage_a)
        rows_b == KubescapeRows(res, stage_b)
        paired == DOMAIN rows_a \cap DOMAIN rows_b
        ratio_a == [a \in paired |-> [num |-> rows_a[a].failed, den |-> rows_a[a].total_controls]]
        ratio_b == [a \in paired |-> [num |-> rows_b[a].failed, den |-> rows_b[a].total_controls]]
        \* delta = ratio_b - ratio_a, as a numerator over the positive
        \* denominator ratio_a.den * ratio_b.den
        delta   == [a \in paired |->
                       ratio_b[a].num * ratio_a[a].den - ratio_a[a].num * ratio_b[a].den]
        Report(outcome) ==
            [fn |-> "analyze_kubescape_paired", metric |-> "fail_ratio",
             stage_a |-> stage_a, stage_b |-> stage_b, apps |-> paired,
             a |-> ratio_a, b |-> ratio_b, ran_test |-> FALSE, outcome |-> outcome]
    IN  IF DOMAIN rows_a = {} /\ DOMAIN rows_b = {} THEN { Report("no_data") }
        ELSE IF DOMAIN rows_a = {} \/ DOMAIN rows_b = {} THEN { Report("missing_stage") }
        ELSE IF Cardinality(paired) = 0 THEN { Report("no_paired") }
        ELSE { [fn            |-> "analyze_kubescape_paired",
                metric        |-> "fail_ratio",
                stage_a       |-> stage_a,
                stage_b       |-> stage_b,
                apps          |-> paired,
                a             |-> ratio_a,
                b             |-> ratio_b,
                delta         |-> delta,
                rank_biserial |-> rank_biserial_from_wilcoxon(delta),
                ran_test      |-> TRUE,
                outcome       |-> IF w = "ValueError" THEN "nan" ELSE w]
               : w \in wilcoxon(delta) }

(***************************************************************************)
(* Per-stage outputs: success rates (main, plotting) and the summary rows  *)
(* of llm_alignment_analysis.                                              *)
(***************************************************************************)
\* a float that is NaN, and the quotient num/den
NaN == [nan |-> TRUE, num |-> 0, den |-> 0]
Quot(num, den) == [nan |-> FALSE, num |-> num, den |-> den]

RowsOfStage(frame, s) == {k \in 1..Len(frame) : frame[k].stage = s}

\* df.groupby("stage")["fully_successful"].mean().reindex(stage_order) * 100
SuccessRateSeries(frame) ==
    [s \in Range(stage_order) |->
        IF RowsOfStage(frame, s) = {} THEN NaN
        ELSE Quot(100 * Cardinality({k \in RowsOfStage(frame, s) : fully_successful(frame[k])}),
                  Cardinality(RowsOfStage(frame, s)))]

\* series.fillna(0)
FillNa0(series) == [s \in DOMAIN series |-> IF series[s].nan THEN Quot(0, 1) ELSE series[s]]

metrics_config == <<"manifests_renderable", "deployment_successful", "expected_behaviour">>

\* plot_per_metric_success_rates: the list metric_success
plot_per_metric_success_rates(frame) ==
    LET StageRows(s) ==
            IF RowsOfStage(frame, s) = {} THEN <<>>
            ELSE [m \in 1..Len(metrics_config) |->
                    [stage        |-> s,
                     metric       |-> metrics_config[m],
                     success_rate |-> Quot(100 * Cardinality({k \in RowsOfStage(frame, s) :
                                                                frame[k][metrics_config[m]]}),
                                           Cardinality(RowsOfStage(frame, s)))]]
    IN  FlatMap(StageRows, stage_order)

\* utils.count_true(pd.Series(val)) of a scalar, read as a truth value: the
\* value of a bool series; of any other series whether str(val).upper() is
\* "TRUE", which no number is
count_true(val) ==
    CASE val.t = "bool" -> val.v
      [] val.t = "str"  -> Lower(val.v) = "true"
      [] OTHER          -> FALSE

\* analyze_llm_human_alignment, lines 40-56: the alignment records, one per
\* application that has both judgments
AlignmentRecords(res) ==
    LET Val(metrics, sub, key) ==
            PyGet(PyGet(metrics, sub, PyDict(<<>>)), key, PyNone)
        StageRecords(stage) ==
            LET OneApp(app) ==
                    LET llm_val   == Val(res[stage][app], "llm_report", "aligned_to_intent")
                        human_val == Val(res[stage][app], "manual_review", "expected_behaviour")
                    IN  IF llm_val = PyNone \/ human_val = PyNone THEN <<>>
                        ELSE << [stage        |-> stage,
                                 app          |-> app,
                                 llm_expected |-> count_true(llm_val),
                                 human_tested |-> count_true(human_val)] >>
            IN  FlatMap(OneApp, InOrder(AppNames, DOMAIN res[stage]))
    IN  FlatMap(StageRecords, InOrder(stage_order, DOMAIN res))

\* subset[column].astype(bool) of the records of one stage, by application
Column(recs, stage, column) ==
    LET ks == {k \in 1..Len(recs) : recs[k].stage = stage}
    IN  [app \in {recs[k].app : k \in ks} |->
            LET k == CHOOSE i \in ks : recs[i].app = app IN recs[k][column]]

\* the number of applications rated a by the first column and b by the second
ConfusionCell(y1, y2, a, b) ==
    Cardinality({x \in DOMAIN y1 : y1[x] = a /\ y2[x] = b})

\* an agreement count taken over the applications the second column rates
\* positive only when the first does
Agreement_OneSided(y_true, y_pred) ==
    Cardinality({x \in DOMAIN y_true : y_pred[x] => y_true[x]})

\* (y_true == y_pred).sum(), line 88
Agreement(y_true, y_pred) ==
    Cardinality({x \in DOMAIN y_true : y_true[x] = y_pred[x]})

\* sklearn.metrics.cohen_kappa_score(y1, y2), line 94: 1 - observed
\* disagreement / expected disagreement over the confusion matrix of the
\* labels present; the quotient 0/0 of two columns that hold one and the
\* same label is nan (a numpy warning, no exception)
cohen_kappa_score(y1, y2) ==
    LET n        == Cardinality(DOMAIN y1)
        pos1     == ConfusionCell(y1, y2, TRUE, TRUE) + ConfusionCell(y1, y2, TRUE, FALSE)
        pos2     == ConfusionCell(y1, y2, TRUE, TRUE) + ConfusionCell(y1, y2, FALSE, TRUE)
        observed == n * (n - Agreement(y1, y2))
        expected == pos1 * (n - pos2) + (n - pos1) * pos2
    IN  IF expected = 0 THEN NaN ELSE Quot(expected - observed, expected)

\* a Matthews coefficient that is nan when a variance is zero
matthews_corrcoef_Undefined(y_true, y_pred) ==
    LET tp == ConfusionCell(y_true, y_pred, TRUE, TRUE)
        fn == ConfusionCell(y_true, y_pred, TRUE, FALSE)
        fp == ConfusionCell(y_true, y_pred, FALSE, TRUE)
        tn == ConfusionCell(y_true, y_pred, FALSE, FALSE)
        den_sq == (tp + fp) * (tp + fn) * (tn + fp) * (tn + fn)
    IN  IF den_sq = 0 THEN [nan |-> TRUE, num |-> 0, den_sq |-> 0]
        ELSE [nan |-> FALSE, num |-> tp * tn - fp * fn, den_sq |-> den_sq]

\* sklearn.metrics.matthews_corrcoef(y_true, y_pred), line 99: the covariance
\* over the root of the product of the two variances, 0.0 when a variance is
\* zero; kept as numerator and squared denominator
matthews_corrcoef(y_true, y_pred) ==
    LET tp == ConfusionCell(y_true, y_pred, TRUE, TRUE)
        fn == ConfusionCell(y_true, y_pred, TRUE, FALSE)
        fp == ConfusionCell(y_true, y_pred, FALSE, TRUE)
        tn == ConfusionCell(y_true, y_pred, FALSE, FALSE)
        den_sq == (tp + fp) * (tp + fn) * (tn + fp) * (tn + fn)
    IN  IF den_sq = 0 THEN [nan |-> FALSE, num |-> 0, den_sq |-> 1]
        ELSE [nan |-> FALSE, num |-> tp * tn - fp * fn, den_sq |-> den_sq]

\* sklearn.metrics.f1_score(y_true, y_pred), line 105: 2tp / (2tp + fp + fn),
\* 0.0 (with a warning) when no application is positive in either column
f1_score(y_true, y_pred) ==
    LET tp == ConfusionCell(y_true, y_pred, TRUE, TRUE)
        fn == ConfusionCell(y_true, y_pred, TRUE, FALSE)
        fp == ConfusionCell(y_true, y_pred, FALSE, TRUE)
    IN  IF 2 * tp + fp + fn = 0 THEN Quot(0, 1) ELSE Quot(2 * tp, 2 * tp + fp + fn)

\* sklearn.metrics.precision_score(y_true, y_pred, zero_division=0), line 106
precision_score(y_true, y_pred) ==
    LET tp == ConfusionCell(y_true, y_pred, TRUE, TRUE)
        fp == ConfusionCell(y_true, y_pred, FALSE, TRUE)
    IN  IF tp + fp = 0 THEN Quot(0, 1) ELSE Quot(tp, tp + fp)

\* sklearn.metrics.recall_score(y_true, y_pred, zero_division=0), line 107
recall_score(y_true, y_pred) ==
    LET tp == ConfusionCell(y_true, y_pred, TRUE, TRUE)
        fn == ConfusionCell(y_true, y_pred, TRUE, FALSE)
    IN  IF tp + fn = 0 THEN Quot(0, 1) ELSE Quot(tp, tp + fn)

\* analyze_llm_human_alignment, lines 73-138: one summary row per stage of
\* stage_order that has an alignment record
analyze_llm_human_alignment(res) ==
    LET df_records == AlignmentRecords(res)
        stages_present ==
            InOrder(stage_order, {df_records[k].stage : k \in 1..Len(df_records)})
        Row(s) ==
            LET y_true == Column(df_records, s, "human_tested")
                y_pred == Column(df_records, s, "llm_expected")
                total  == Cardinality(DOMAIN y_true)
            IN  << [stage         |-> s,
                    n             |-> total,
                    agreement     |-> Agreement(y_true, y_pred),
                    agreement_pct |-> Quot(Agreement(y_true, y_pred) * 100, total),
                    kappa         |-> cohen_kappa_score(y_true, y_pred),
                    mcc           |-> matthews_corrcoef(y_true, y_pred),
                    f1            |-> f1_score(y_true, y_pred),
                    precision     |-> precision_score(y_true, y_pred),
                    recall        |-> recall_score(y_true, y_pred),
                    llm_positive_count   |-> Cardinality({x \in DOMAIN y_pred : y_pred[x]}),
                    human_positive_count |-> Cardinality({x \in DOMAIN y_true : y_true[x]})] >>
    IN  FlatMap(Row, stages_present)

(***************************************************************************)
(* analysis.main on a results mapping                                      *)
(***************************************************************************)
\* the stages the results mappings of Spec may hold
MainStages == <<"with_ir", "with_ir_corrected">>

\* the metrics bags an application of a results mapping may hold
AllTrue ==
    PyDict([manifests_renderable |-> PyBool(TRUE), deployment_successful |-> PyBool(TRUE),
            pods_ready |-> PyBool(TRUE), services_accessible |-> PyBool(TRUE)])

PodsNotReady ==
    PyDict([manifests_renderable |-> PyBool(TRUE), deployment_successful |-> PyBool(TRUE),
            pods_ready |-> PyBool(FALSE)])

BagPool ==
    << PyDict([skaffold      |-> AllTrue,
               human_effort  |-> PyDict([added_lines      |-> PyDict([total |-> PyInt(3)]),
                                         removed_lines    |-> PyInt(2),
                                         total_operations |-> PyInt(5)]),
               kubescape     |-> PyDict([critical |-> PyInt(0), high |-> PyInt(1),
                                         medium |-> PyInt(0), low |-> PyInt(0),
                                         total_controls |-> PyInt(4)]),
               llm_report    |-> PyDict([aligned_to_intent |-> PyBool(TRUE)]),
               manual_review |-> PyDict([expected_behaviour |-> PyBool(TRUE)])]),
       PyDict([skaffold        |-> PodsNotReady,
               human_effort_ir |-> PyDict([total_operations |-> PyDict([total |-> PyInt(10)])]),
               kubescape       |-> PyDict([critical |-> PyInt(1), high |-> PyInt(1),
                                           total_controls |-> PyInt(4)]),
               llm_report      |-> PyDict([aligned_to_intent |-> PyStr("True")]),
               manual_review   |-> PyDict([expected_behaviour |-> PyBool(FALSE)])]),
       PyDict(<<>>),
       PyNone,
       PyDict([skaffold  |-> AllTrue,
               kubescape |-> PyDict([high |-> PyStr("n/a"), total_controls |-> PyInt(4)])]),
       PyDict([human_effort    |-> PyDict([total_operations |-> PyInt(5)]),
               human_effort_ir |-> PyDict([total_operations |-> PyInt(10),
                                           added_lines      |-> PyInt(7)])]),
       PyDict([human_effort_overrides |-> PyNone]
              @@ ("human-effort" :> PyDict([total_operations |-> PyInt(4)]))) >>

OverrideStages == <<"with_overrides", "with_overrides_corrected">>

\* one application measured before and after the correction of with_ir
IrPair == [with_ir |-> [a |-> BagPool[2]], with_ir_corrected |-> [a |-> BagPool[1]]]

\* the two bags that hold every sub-record
FullBags == SubSeq(BagPool, 1, 2)

\* the count fields of a human-effort sub-record, all four written as
\* {"total": n} or all four written as the bare n
EffortFields == <<"added_lines", "removed_lines", "modified_lines", "total_operations">>

EffortBag(key, val) ==
    PyDict(key :> PyDict([f \in Range(EffortFields) |-> val]))

EffortForms ==
    << EffortBag("human_effort", PyDict([total |-> PyInt(7)])),
       EffortBag("human_effort", PyInt(7)),
       EffortBag("human-effort", PyDict([total |-> PyInt(2)])),
       EffortBag("human_effort_ir", PyInt(2)) >>

\* the results mappings of Spec: any mapping of full bags over the two
\* with_ir stages, any over the two with_overrides stages, alone or next to
\* IrPair, and any mapping of the whole pool over one stage
\* the two judgments of an application in the forms a results file may
\* hold them: booleans, strings, numbers
JudgmentBag(llm_val, human_val) ==
    PyDict([llm_report    |-> PyDict([aligned_to_intent |-> llm_val]),
            manual_review |-> PyDict([expected_behaviour |-> human_val])])

JudgmentForms ==
    << JudgmentBag(PyBool(TRUE), PyBool(TRUE)),
       JudgmentBag(PyBool(TRUE), PyBool(FALSE)),
       JudgmentBag(PyBool(FALSE), PyBool(TRUE)),
       JudgmentBag(PyBool(FALSE), PyBool(FALSE)),
       JudgmentBag(PyStr("false"), PyStr("TRUE")),
       JudgmentBag(PyInt(1), PyInt(0)) >>

\* two stages with a constant LLM column: one whose human column varies, one
\* whose human column holds the same single value
ConstantStages ==
    [with_ir_corrected        |-> [a |-> BagPool[1], b |-> BagPool[2]],
     with_overrides_corrected |-> [a |-> BagPool[1]]]

\* the kubescape sub-record with total_controls negative, zero, null, absent
\* and positive
ScanBag(ks) == PyDict([kubescape |-> PyDict(ks)])

ScanForms ==
    << ScanBag([total_controls |-> PyInt(-1), critical |-> PyInt(1)]),
       ScanBag([total_controls |-> PyInt(0), high |-> PyInt(1)]),
       ScanBag([total_controls |-> PyNone, high |-> PyInt(1)]),
       ScanBag([medium |-> PyInt(1)]),
       ScanBag([total_controls |-> PyInt(4), critical |-> PyInt(1)]) >>

\* one application scanned after the correction of with_ir
CorrectedScan == [with_ir_corrected |-> [a |-> BagPool[1]]]

MainResults ==
    Mappings(MainStages, FullBags)
    \cup { m @@ base : m \in Mappings(OverrideStages, FullBags),
                       base \in {IrPair, <<>>} }
    \cup Mappings(<<"with_ir_corrected">>, BagPool)
    \cup Mappings(<<"without_ir">>, EffortForms)
    \cup { m @@ base : m \in Mappings(<<"without_ir">>, JudgmentForms),
                       base \in {ConstantStages, <<>>} }
    \cup { m @@ CorrectedScan : m \in Mappings(<<"with_ir">>, ScanForms) }

\* the diff-metrics mappings of Spec
MainDiffData ==
    { <<>>,
      [without_ir     |-> [a |-> DetailsPool[1]],
       with_overrides |-> [a |-> DetailsPool[1]]],
      [without_ir     |-> [a |-> DetailsPool[2], b |-> DetailsPool[1]],
       with_overrides |-> [a |-> DetailsPool[1], b |-> DetailsPool[3]]] }

\* os.path.exists of args.path, args.repo_csv and args.diff_json
InputPaths == {"path", "repo_csv", "diff_json"}

AllPresent == [f \in InputPaths |-> TRUE]

\* the results mappings main is run on when an input file may be missing
FileResults == Mappings(MainStages, <<BagPool[1]>>)

Init ==
    /\ pc = "start"
    /\ \/ files = AllPresent /\ results \in MainResults
       \/ files \in [InputPaths -> BOOLEAN] /\ results \in FileResults
    /\ df = <<>> /\ comparisons = <<>>
    /\ issue = <<>> /\ category = "" /\ data = <<>> /\ records = <<>> /\ stats = <<>>
    /\ mwu_results = <<>> /\ success_rates = <<>>
    /\ metric_success = <<>> /\ summary_rows = <<>>
    /\ df_align = <<>> /\ log = <<>>

\* a main that returns when the repository-metadata CSV does not exist
StartMain_StopsWithoutCsv ==
    /\ pc = "start"
    /\ IF ~files["path"]
       THEN log' = <<"File not found">> /\ pc' = "done"
       ELSE IF ~files["repo_csv"]
       THEN /\ log' = <<"analyze_repository_metadata", "Repository metadata CSV not found">>
            /\ pc' = "done"
       ELSE log' = <<"analyze_repository_metadata">> /\ pc' = "main"
    /\ UNCHANGED <<issue, category, data, records, stats, results, df, comparisons,
                   mwu_results, success_rates, metric_success, summary_rows,
                   df_align, files>>

\* main, lines 38-45: return when args.path does not exist; else
\* analyze_repository_metadata, which prints that the CSV is not found and
\* returns when args.repo_csv does not exist
StartMain ==
    /\ pc = "start"
    /\ IF ~files["path"]
       THEN log' = <<"File not found">> /\ pc' = "done"
       ELSE /\ log' = IF files["repo_csv"]
                      THEN <<"analyze_repository_metadata">>
                      ELSE <<"analyze_repository_metadata", "Repository metadata CSV not found">>
            /\ pc' = "main"
    /\ UNCHANGED <<issue, category, data, records, stats, results, df, comparisons,
                   mwu_results, success_rates, metric_success, summary_rows,
                   df_align, files>>

\* main, lines 47-54: load, flatten, return when no row was extracted; an
\* exception of flatten_results ends main
LoadAndFlatten ==
    /\ pc = "main"
    /\ IF flatten_results_raises(results)
       THEN df' = <<>> /\ pc' = "raised" /\ log' = Append(log, "flatten_results")
       ELSE /\ df' = flatten_results(results)
            /\ pc' = IF df' = <<>> THEN "done" ELSE "success_rates"
            /\ log' = IF df' = <<>>
                      THEN log \o <<"flatten_results", "No rows extracted from JSON">>
                      ELSE Append(log, "flatten_results")
    /\ UNCHANGED <<issue, category, data, records, stats, results, comparisons,
                   mwu_results, success_rates, metric_success, summary_rows,
                   df_align, files>>

\* main, lines 57-69: the success rates by stage and by metric
SuccessRates ==
    /\ pc = "success_rates"
    /\ success_rates' = [series  |-> SuccessRateSeries(df),
                         printed |-> FillNa0(SuccessRateSeries(df))]
    /\ metric_success' = plot_per_metric_success_rates(df)
    /\ pc' = "mcnemar"
    /\ log' = log \o <<"plot_success_rates", "plot_per_metric_success_rates">>
    /\ UNCHANGED <<issue, category, data, records, stats, results, df, comparisons,
                   mwu_results, summary_rows, df_align, files>>

\* main, line 70
RunMcNemarPairwise ==
    /\ pc = "mcnemar"
    /\ comparisons' = comparisons \o run_mcnemar_pairwise(df)
    /\ pc' = "human_effort"
    /\ log' = Append(log, "run_mcnemar_pairwise")
    /\ UNCHANGED <<issue, category, data, records, stats, results, df,
                   mwu_results, success_rates, metric_success, summary_rows,
                   df_align, files>>

\* main, line 71: analyze_human_effort(df, fig_dir); a KeyError in one
\* iteration ends main
AnalyzeHumanEffort ==
    /\ pc = "human_effort"
    /\ \E r1 \in HumanEffortPair(df, base_corrected_pairs[1][1], base_corrected_pairs[1][2]),
          r2 \in HumanEffortPair(df, base_corrected_pairs[2][1], base_corrected_pairs[2][2]) :
            IF r1.outcome = "KeyError"
            THEN pc' = "raised" /\ comparisons' = comparisons
            ELSE IF r2.outcome = "KeyError"
            THEN pc' = "raised" /\ comparisons' = comparisons \o <<r1>>
            ELSE pc' = "kubescape" /\ comparisons' = comparisons \o <<r1, r2>>
    /\ log' = Append(log, "analyze_human_effort")
    /\ UNCHANGED <<issue, category, data, records, stats, results, df,
                   mwu_results, success_rates, metric_success, summary_rows,
                   df_align, files>>

\* main, line 73: analyze_kubescape(results, fig_dir)
AnalyzeKubescape ==
    /\ pc = "kubescape"
    /\ mwu_results' = analyze_kubescape(results)
    /\ pc' = "kubescape_paired"
    /\ log' = Append(log, "analyze_kubescape")
    /\ UNCHANGED <<issue, category, data, records, stats, results, df, comparisons,
                   success_rates, metric_success, summary_rows,
                   df_align, files>>

\* main, line 74: analyze_kubescape_paired(results, fig_dir)
AnalyzeKubescapePaired ==
    /\ pc = "kubescape_paired"
    /\ \E r \in analyze_kubescape_paired(results, "with_ir", "with_ir_corrected") :
          comparisons' = comparisons \o <<r>>
    /\ pc' = "llm_alignment"
    /\ log' = Append(log, "analyze_kubescape_paired")
    /\ UNCHANGED <<issue, category, data, records, stats, results, df,
                   mwu_results, success_rates, metric_success, summary_rows,
                   df_align, files>>

\* main, line 75: analyze_llm_human_alignment(results, fig_dir)
AnalyzeLlmHumanAlignment ==
    /\ pc = "llm_alignment"
    /\ df_align' = AlignmentRecords(results)
    /\ summary_rows' = analyze_llm_human_alignment(results)
    /\ pc' = "drift"
    /\ log' = Append(log, "analyze_llm_human_alignment")
    /\ UNCHANGED <<issue, category, data, records, stats, results, df, comparisons,
                   mwu_results, success_rates, metric_success, files>>

\* main, lines 78-85: analyze_drift_quality on the diff-metrics file when it
\* exists (it is read at this point), else the warning that it is skipped;
\* then the completion message
AnalyzeDriftQuality ==
    /\ pc = "drift"
    /\ IF ~files["diff_json"]
       THEN /\ pc' = "done"
            /\ log' = log \o <<"Skipping Drift Analysis", "Analysis complete">>
            /\ UNCHANGED <<data, records, stats, comparisons>>
       ELSE \E d \in MainDiffData :
            /\ data' = d
            /\ records' = FlattenData(d)
            /\ IF records' = <<>>
               THEN /\ pc' = "raised" /\ UNCHANGED <<stats, comparisons>>
                    /\ log' = Append(log, "analyze_drift_quality")
               ELSE /\ stats' = DriftStatistics(records')
                    /\ \E t \in DriftTests(records', stats'.existing_stages) :
                          comparisons' = comparisons \o t
                    /\ pc' = "done"
                    /\ log' = log \o <<"analyze_drift_quality", "Analysis complete">>
    /\ UNCHANGED <<issue, category, results, df,
                   mwu_results, success_rates, metric_success, summary_rows,
                   df_align, files>>

Next ==
    \/ StartMain
    \/ LoadAndFlatten \/ SuccessRates \/ RunMcNemarPairwise \/ AnalyzeHumanEffort
    \/ AnalyzeKubescape \/ AnalyzeKubescapePaired \/ AnalyzeLlmHumanAlignment
    \/ AnalyzeDriftQuality

Spec == Init /\ [][Next]_vars

(***************************************************************************)
(* The unpaired comparators on their own: analyze_kubescape on a results   *)
(* mapping over all five stages, print_mwu on two groups of observations.  *)
(***************************************************************************)
MaxGroup == 3

\* the groups of observations print_mwu may be given: up to MaxGroup equal
\* observations (the values play no part in the guard)
Groups == { [k \in 1..n |-> 1] : n \in 0..MaxGroup }

\* the applications of the results mappings of SpecUnpaired
UnpairedApps == {AppNames[k] : k \in 1..(MaxApps - 1)}

\* every mapping whose stages hold some of UnpairedApps, each with a
\* Kubescape scan, but for application "a" of with_ir, which has none
UnpairedResults ==
    LET Cells == [Range(stage_order) -> SUBSET UnpairedApps]
    IN  { [s \in {t \in Range(stage_order) : cells[t] # {}} |->
              [a \in cells[s] |-> IF s = "with_ir" /\ a = "a"
                                  THEN BagPool[3] ELSE BagPool[1]]]
          : cells \in Cells }

InitUnpaired ==
    /\ pc = "unpaired"
    /\ results \in UnpairedResults
    /\ df = <<>> /\ comparisons = <<>>
    /\ issue = <<>> /\ category = "" /\ data = <<>> /\ records = <<>> /\ stats = <<>>
    /\ mwu_results = <<>> /\ success_rates = <<>>
    /\ metric_success = <<>> /\ summary_rows = <<>>
    /\ df_align = <<>> /\ files = <<>> /\ log = <<>>

\* analyze_kubescape(results, fig_dir)
CallAnalyzeKubescape ==
    /\ pc = "unpaired"
    /\ mwu_results' = analyze_kubescape(results)
    /\ pc' = "print_mwu"
    /\ UNCHANGED <<issue, category, data, records, stats, results, df, comparisons,
                   success_rates, metric_success, summary_rows,
                   df_align, files, log>>

\* print_mwu(label, grp_success, grp_fail)
CallPrintMwu ==
    /\ pc = "print_mwu"
    /\ \E grp_success \in Groups, grp_fail \in Groups :
          mwu_results' = mwu_results \o << print_mwu("effort", grp_success, grp_fail) >>
    /\ pc' = "done"
    /\ UNCHANGED <<issue, category, data, records, stats, results, df, comparisons,
                   success_rates, metric_success, summary_rows,
                   df_align, files, log>>

NextUnpaired == CallAnalyzeKubescape \/ CallPrintMwu

SpecUnpaired == InitUnpaired /\ [][NextUnpaired]_vars

(***************************************************************************)
(* Properties of classify_issue (checked under SpecClassify).              *)
(* The predicates below restate the rules in the words of the              *)
(* specification, on the raw issue record.                                 *)
(***************************************************************************)
\* the field is present and its text contains `word` in any letter case
Mentions(i, f, word) == f \in DOMAIN i /\ Contains(word, Lower(i[f]))

EnhancementRuleMatches(i) ==
    \/ Mentions(i, "comments", "enhancement")
    \/ Mentions(i, "comments", "production ready")
    \/ Mentions(i, "severity_description", "security") /\ Mentions(i, "issue_type", "extra")
    \/ /\ Mentions(i, "path", "readinessprobe") \/ Mentions(i, "path", "livenessprobe")
       /\ Mentions(i, "issue_type", "extra")

BenignPattern(i) ==
    \/ Mentions(i, "comments", "correctly mapped")
    \/ Mentions(i, "comments", "local image")
    \/ Mentions(i, "comments", "different name")

\* the reviewed level if one is given (present and not empty), else the
\* automatic severity tier, else UNKNOWN
SeverityAfterReview(i) ==
    IF "reviewed_level" \in DOMAIN i /\ i["reviewed_level"] # "" THEN i["reviewed_level"]
    ELSE IF "severity_level" \in DOMAIN i THEN i["severity_level"]
    ELSE "UNKNOWN"

WithField(i, f, v) == [k \in DOMAIN i \cup {f} |-> IF k = f THEN v ELSE i[k]]
WithoutField(i, f) == [k \in DOMAIN i \ {f} |-> i[k]]

\* the issue with its automatic severity replaced by s (Absent: removed)
WithSeverity(i, s) ==
    IF s = Absent THEN WithoutField(i, "severity_level")
    ELSE WithField(i, "severity_level", s)

\* C3: whenever an enhancement rule matches, the result is Enhancement,
\* whatever the effective severity (enhancement rules run before the Error
\* test).
C3_EnhancementBeforeError ==
    (pc = "classified" /\ EnhancementRuleMatches(issue)) => category = "Enhancement"

\* the example of C3: severity HIGH, issue-type "extra", a livenessprobe path
C3_Witness ==
    /\ pc = "classified"
    /\ SeverityAfterReview(issue) = "HIGH"
    /\ Mentions(issue, "issue_type", "extra")
    /\ Mentions(issue, "path", "livenessprobe")
    /\ ~Mentions(issue, "comments", "enhancement")
    /\ category = "Enhancement"

C5_BenignSuppression ==
    ( /\ pc = "classified"
      /\ SeverityAfterReview(issue) \in {"CRITICAL", "HIGH"}
      /\ ~EnhancementRuleMatches(issue)
      /\ BenignPattern(issue) ) => category = "Noise"

\* the example of C5: severity CRITICAL, commentary "local image used instead"
C5_Witness ==
    /\ pc = "classified"
    /\ SeverityAfterReview(issue) = "CRITICAL"
    /\ DictGet(issue, "comments", "") = "local image used instead"
    /\ ~EnhancementRuleMatches(issue)
    /\ category = "Noise"

\* C6: an enhancement rule matching together with a benign pattern in the
\* commentary gives Enhancement, never Noise.
C6_BenignNeverSuppressesEnhancement ==
    ( /\ pc = "classified"
      /\ EnhancementRuleMatches(issue)
      /\ BenignPattern(issue) ) => (category = "Enhancement" /\ category # "Noise")

\* a probe addition of severity CRITICAL whose commentary holds a benign pattern
C6_Witness ==
    /\ pc = "classified"
    /\ SeverityAfterReview(issue) = "CRITICAL"
    /\ Mentions(issue, "path", "readinessprobe")
    /\ Mentions(issue, "issue_type", "extra")
    /\ DictGet(issue, "comments", "") = "Correctly Mapped"
    /\ category = "Enhancement"

TextFields == {"comments", "severity_description", "issue_type", "path"}

C8_DefaultToNoise ==
    pc = "classified" =>
        /\ ( /\ ~EnhancementRuleMatches(issue)
             /\ SeverityAfterReview(issue) \notin {"CRITICAL", "HIGH"} ) => category = "Noise"
        /\ category = "Error" =>
              /\ SeverityAfterReview(issue) \in {"CRITICAL", "HIGH"}
              /\ ~EnhancementRuleMatches(issue)
              /\ ~BenignPattern(issue)

\* the example of C8: severity MEDIUM and no matching keyword anywhere
C8_Witness ==
    /\ pc = "classified"
    /\ DOMAIN issue = IssueFields \ {"reviewed_level"}
    /\ issue["severity_level"] = "MEDIUM"
    /\ ~EnhancementRuleMatches(issue)
    /\ ~BenignPattern(issue)
    /\ category = "Noise"

(***************************************************************************)
(* Properties of the paired comparators (Spec, SpecDrift) and of the       *)
(* drift aggregation (SpecDrift).                                          *)
(***************************************************************************)
\* the applications the mapping d holds under stage s
AppsIn(d, s) == IF s \in DOMAIN d THEN DOMAIN d[s] ELSE {}

\* the mapping a comparison's function was given
InputOf(c) == IF c.fn = "analyze_drift_quality" THEN data ELSE results

\* the applications present in both stages a comparison compares
InBothStages(c) == AppsIn(InputOf(c), c.stage_a) \cap AppsIn(InputOf(c), c.stage_b)

\* C1: every paired comparison that runs its test runs it only on
\* applications present in both compared stages; an application of one
\* stage only is not in the paired samples.
C1_PairedOnlyMatchedApps ==
    \A k \in 1..Len(comparisons) :
        comparisons[k].ran_test => comparisons[k].apps \subseteq InBothStages(comparisons[k])

SignedRankComparators ==
    {"analyze_drift_quality", "analyze_human_effort", "analyze_kubescape_paired"}

InsufficientReports == {"insufficient", "no_paired", "missing_stage", "no_data"}

\* C2: a signed-rank comparator reports insufficient data and does not run
\* the test when fewer than 3 applications are matched across the two
\* stages.
C2_InsufficientBelowThree ==
    \A k \in 1..Len(comparisons) :
        ( /\ comparisons[k].fn \in SignedRankComparators
          /\ Cardinality(InBothStages(comparisons[k])) < 3 )
        => ( /\ ~comparisons[k].ran_test
             /\ comparisons[k].outcome \in InsufficientReports )

\* the three issues of the end-to-end scenario, under one application of
\* one stage
IsScenario(d) ==
    \E s \in DOMAIN d : \E a \in DOMAIN d[s] :
        /\ DOMAIN d = {s} /\ DOMAIN d[s] = {a}
        /\ d[s][a] = [issues_by_severity |-> ScenarioIssues]

\* C9: classifying the three issues CRITICAL/"", HIGH/"enhancement added",
\* LOW/"" and counting per category gives Error 1, Enhancement 1, Noise 1,
\* in the list of records and in the stage's row of the count table.
C9_ScenarioCounts ==
    (pc # "flatten" /\ IsScenario(data)) =>
        /\ \A c \in Categories : Count(records, LAMBDA r : r.category = c) = 1
        /\ pc \in {"tests", "done"} =>
              \A s \in DOMAIN data : stats.table[s] = [c \in Categories |-> 1]

C9_Witness ==
    /\ pc = "done"
    /\ IsScenario(data)
    /\ Len(records) = 3
    /\ \E s \in DOMAIN data : stats.table[s]["Error"] = 1

\* every application of the comparison has a smaller ratio in the second
\* stage than in the first
AllDecrease(c) ==
    /\ c.apps # {}
    /\ \A a \in c.apps : c.b[a].num * c.a[a].den < c.a[a].num * c.b[a].den

\* C10 as stated: when every matched application decreases, the
\* rank-biserial effect size derived from the sign counts is 1.0.
C10_AllDecreaseGivesPlusOne ==
    \A k \in 1..Len(comparisons) :
        ( /\ comparisons[k].fn = "analyze_kubescape_paired"
          /\ comparisons[k].ran_test
          /\ AllDecrease(comparisons[k]) )
        => comparisons[k].rank_biserial.num = comparisons[k].rank_biserial.den

\* C10 amended: when every matched application decreases, the
\* rank-biserial effect size derived from the sign counts is -1.0.
C10_AllDecreaseGivesMinusOne ==
    \A k \in 1..Len(comparisons) :
        ( /\ comparisons[k].fn = "analyze_kubescape_paired"
          /\ comparisons[k].ran_test
          /\ AllDecrease(comparisons[k]) )
        => /\ comparisons[k].rank_biserial.den > 0
           /\ comparisons[k].rank_biserial.num = - comparisons[k].rank_biserial.den

\* three matched applications, each with a smaller ratio after correction
C10_Witness ==
    /\ pc = "done"
    /\ \E k \in 1..Len(comparisons) :
          /\ comparisons[k].fn = "analyze_kubescape_paired"
          /\ comparisons[k].ran_test
          /\ Cardinality(comparisons[k].apps) = 3
          /\ AllDecrease(comparisons[k])
          /\ comparisons[k].rank_biserial = [num |-> -3, den |-> 3]

(***************************************************************************)
(* Failure handling and batch behaviour of the comparators (Spec).         *)
(***************************************************************************)
\* the paired differences of the comparison are all zero: the signed-rank
\* test is undefined
AllZero(c) ==
    /\ c.apps # {}
    /\ IF c.fn = "analyze_kubescape_paired"
       THEN \A a \in c.apps : c.delta[a] = 0
       ELSE \A a \in c.apps : c.a[a] = c.b[a]

NotComputable == {"nan", "could_not_perform"}

\* C11: when the signed-rank test is undefined because all paired deltas
\* are zero, the comparator reports a not-computable outcome (NaN, or "could
\* not perform test"), the failure does not leave the comparator, and the
\* comparisons that follow are still performed: the second base/corrected
\* pair after the first, the unpaired and paired Kubescape analyses after
\* the human-effort analysis, the total-drift test after the error-count
\* test.
C11_UndefinedTestIsCaught ==
    \A k \in 1..Len(comparisons) :
        LET c == comparisons[k]
        IN  ( c.fn \in SignedRankComparators /\ c.ran_test /\ AllZero(c) ) =>
              /\ c.outcome \in NotComputable
              /\ ( c.fn = "analyze_human_effort" /\ c.stage_a = "with_ir" ) =>
                    /\ k < Len(comparisons)
                    /\ comparisons[k + 1].fn = "analyze_human_effort"
                    /\ comparisons[k + 1].stage_a = "with_overrides"
              /\ c.fn = "analyze_human_effort" =>
                    /\ pc = "raised" => mwu_results # <<>>
                    /\ pc \in {"llm_alignment", "drift", "done"} =>
                          \E j \in (k + 1)..Len(comparisons) :
                              comparisons[j].fn = "analyze_kubescape_paired"
              /\ ( c.fn = "analyze_drift_quality" /\ c.metric = "error_count" ) =>
                    /\ k < Len(comparisons)
                    /\ comparisons[k + 1].fn = "analyze_drift_quality"
                    /\ comparisons[k + 1].metric = "total_drift"

\* a run that ended normally in which the human-effort, the paired
\* Kubescape and the error-count comparison each met all-zero deltas
C11_Witness ==
    /\ pc = "done"
    /\ \A f \in SignedRankComparators :
          \E k \in 1..Len(comparisons) :
              /\ comparisons[k].fn = f
              /\ comparisons[k].ran_test
              /\ AllZero(comparisons[k])
              /\ comparisons[k].outcome \in NotComputable

\* the number of applications of a stage whose Kubescape scan has controls
ScannedApps(stage) ==
    IF stage \notin DOMAIN results THEN 0
    ELSE Cardinality({a \in DOMAIN results[stage] :
            /\ "kubescape" \in DOMAIN results[stage][a].v
            /\ "total_controls" \in DOMAIN results[stage][a].v["kubescape"].v
            /\ results[stage][a].v["kubescape"].v["total_controls"].t = "int"
            /\ results[stage][a].v["kubescape"].v["total_controls"].v > 0})

\* C12: a stage pair reported as having insufficient data does not end its
\* loop: in analyze_human_effort the second base/corrected pair is evaluated
\* after an insufficient first pair (it is reported, or its own evaluation
\* raises), in analyze_kubescape each of the six test pairs is evaluated and
\* the pairs with at least two observations per stage are tested; the
\* insufficient pair itself carries no test result.
C12_InsufficientDoesNotStopBatch ==
    /\ \A k \in 1..Len(comparisons) :
          LET c == comparisons[k]
          IN  ( c.fn = "analyze_human_effort" /\ c.outcome = "insufficient" ) =>
                /\ ~c.ran_test /\ c.a = <<>> /\ c.b = <<>>
                /\ c.stage_a = "with_ir" =>
                      \/ /\ k < Len(comparisons)
                         /\ comparisons[k + 1].fn = "analyze_human_effort"
                         /\ comparisons[k + 1].stage_a = "with_overrides"
                      \/ /\ k = Len(comparisons)
                         /\ pc = "raised"
                         /\ HumanEffortPair(df, "with_overrides", "with_overrides_corrected")
                               = { [outcome |-> "KeyError"] }
    /\ \A k \in 1..Len(mwu_results) :
          mwu_results[k].outcome = "insufficient" =>
            /\ ~mwu_results[k].ran_test
            /\ Len(mwu_results) = Len(test_pairs)
            /\ \A j \in (k + 1)..Len(test_pairs) :
                  /\ mwu_results[j].stage_1 = test_pairs[j][1]
                  /\ mwu_results[j].stage_2 = test_pairs[j][2]
                  /\ mwu_results[j].ran_test <=>
                        /\ ScannedApps(test_pairs[j][1]) >= 2
                        /\ ScannedApps(test_pairs[j][2]) >= 2

\* the first base/corrected pair has one matched application and the second
\* is tested; the first two test pairs lack data and a later one is tested
C12_Witness ==
    /\ pc = "done"
    /\ \E k \in 1..(Len(comparisons) - 1) :
          /\ comparisons[k].fn = "analyze_human_effort"
          /\ comparisons[k].outcome = "insufficient"
          /\ Cardinality(comparisons[k].apps) = 1
          /\ comparisons[k + 1].fn = "analyze_human_effort"
          /\ comparisons[k + 1].ran_test
    /\ mwu_results[1].outcome = "insufficient"
    /\ \E j \in 2..Len(mwu_results) : mwu_results[j].ran_test

(***************************************************************************)
(* The unpaired comparators (SpecUnpaired).                                *)
(***************************************************************************)
\* C13: the rank-sum test is never run on a group of fewer than 2
\* observations: print_mwu and each test pair of analyze_kubescape report
\* insufficient data and compute no statistic when either group is that
\* small.
C13_NoRankSumBelowTwo ==
    \A k \in 1..Len(mwu_results) :
        LET c  == mwu_results[k]
            n1 == IF c.fn = "print_mwu" THEN c.n1 ELSE ScannedApps(c.stage_1)
            n2 == IF c.fn = "print_mwu" THEN c.n2 ELSE ScannedApps(c.stage_2)
        IN  ( n1 < 2 \/ n2 < 2 ) =>
              /\ ~c.ran_test
              /\ c.outcome \in {"insufficient", "no_data"}

\* a test pair of analyze_kubescape had one scanned application on one side
\* and two on the other while a later pair was tested, and print_mwu was
\* given a group of a single observation and a group of two or more
C13_Witness ==
    /\ pc = "done"
    /\ \E k \in 1..Len(mwu_results) :
          /\ mwu_results[k].fn = "analyze_kubescape"
          /\ mwu_results[k].outcome = "insufficient"
          /\ ScannedApps(mwu_results[k].stage_1) = 1
          /\ ScannedApps(mwu_results[k].stage_2) >= 2
          /\ \E j \in (k + 1)..Len(mwu_results) :
                mwu_results[j].fn = "analyze_kubescape" /\ mwu_results[j].ran_test
    /\ \E k \in 1..Len(mwu_results) :
          /\ mwu_results[k].fn = "print_mwu"
          /\ mwu_results[k].n1 = 1 /\ mwu_results[k].n2 >= 2
          /\ mwu_results[k].outcome = "insufficient"

(***************************************************************************)
(* The tables of the drift aggregator (SpecDrift).                         *)
(***************************************************************************)
\* the records of stage s, and those of category c among them
RecordsOf(s) == {k \in 1..Len(records) : records[k].stage = s}
RecordsOfCategory(s, c) == {k \in RecordsOf(s) : records[k].category = c}

\* C14: every stage row of the stage x category count table has an entry
\* for each of Error, Enhancement and Noise, equal to the number of records
\* of that stage and category: 0 when there is none.
C14_ExplicitZeroCategories ==
    pc \in {"tests", "done"} =>
        \A s \in DOMAIN stats.table :
            /\ DOMAIN stats.table[s] = {"Error", "Enhancement", "Noise"}
            /\ \A c \in {"Error", "Enhancement", "Noise"} :
                  stats.table[s][c] = Cardinality(RecordsOfCategory(s, c))

\* a stage with records, none of them an Enhancement, has the entry 0
C14_Witness ==
    /\ pc = "done"
    /\ \E s \in DOMAIN stats.table :
          /\ RecordsOf(s) # {}
          /\ RecordsOfCategory(s, "Enhancement") = {}
          /\ stats.table[s]["Enhancement"] = 0
          /\ stats.table[s]["Error"] > 0

\* the applications with at least one record in stage s
ContributingApps(s) == {records[k].app : k \in RecordsOf(s)}

\* C15: the normalized count of a stage and category is the count divided
\* by the number of distinct applications with at least one record in the
\* stage (10 records across 5 applications give 10/5 = 2.0); only stages
\* with a contributing application are normalized, so the divisor is
\* positive.
C15_NormalizedPerContributingApp ==
    pc \in {"tests", "done"} =>
        /\ \A s \in DOMAIN stats.stats_normalized :
              /\ ContributingApps(s) # {}
              /\ \A c \in DOMAIN stats.stats_normalized[s] :
                    /\ stats.stats_normalized[s][c].num = Cardinality(RecordsOfCategory(s, c))
                    /\ stats.stats_normalized[s][c].den = Cardinality(ContributingApps(s))
                    /\ stats.stats_normalized[s][c].den > 0
        /\ data = TenAcrossFive =>
              /\ stats.stats_normalized["without_ir"]["Error"].num
                    = 2 * stats.stats_normalized["without_ir"]["Error"].den
              /\ stats.stats_normalized["without_ir"]["Error"].den = 5

\* the 10 Error records of 5 applications are normalized to 10/5
C15_Witness ==
    /\ pc = "done"
    /\ data = TenAcrossFive
    /\ Len(records) = 10
    /\ stats.stats_normalized["without_ir"]["Error"] = [num |-> 10, den |-> 5]

\* the stages that occur in the records
StagesOfRecords == {records[k].stage : k \in 1..Len(records)}

\* C16: the rows of the stage x category table are exactly the canonical
\* stages (without_ir, with_ir, with_ir_corrected, with_overrides,
\* with_overrides_corrected) that occur in the records, in canonical order.
C16_RowsAreCanonicalStagesPresent ==
    pc \in {"tests", "done"} =>
        /\ stats.existing_stages = InOrder(stage_order, StagesOfRecords)
        /\ DOMAIN stats.table = StagesOfRecords \cap Range(stage_order)

(***************************************************************************)
(* Per-stage outputs of main and record extraction (Spec).                 *)
(***************************************************************************)
\* the stages with at least one application record in the results mapping
StagesInInput == {s \in DOMAIN results : DOMAIN results[s] # {}}

\* C17: no per-stage output is produced for a stage without an application
\* record in the input: the printed success rates, the per-metric success
\* rows and the alignment summary rows only concern stages of the input.
C17_AbsentStageNeverSynthesized ==
    ( df # <<>> /\ pc \notin {"main", "success_rates"} ) =>
        /\ DOMAIN success_rates.printed \subseteq StagesInInput
        /\ \A k \in 1..Len(metric_success) : metric_success[k].stage \in StagesInInput
        /\ \A k \in 1..Len(summary_rows) : summary_rows[k].stage \in StagesInInput

\* main has called flatten_results
Flattened == "flatten_results" \in Range(log)

\* the (stage, application) pairs of the results mapping
InputPairs == {p \in (DOMAIN results) \X Apps : p[2] \in DOMAIN results[p[1]]}

\* the metrics bag holds a mapping under `sub` with the key `key`
HasNested(bag, sub, key) ==
    /\ sub \in DOMAIN bag.v
    /\ bag.v[sub].t = "dict"
    /\ key \in DOMAIN bag.v[sub].v

\* the bag is a mapping and the security counts it holds are integers
WellTypedBag(bag) ==
    /\ bag.t = "dict"
    /\ \A key \in {"critical", "high", "medium", "low", "total_controls"} :
          HasNested(bag, "kubescape", key) => bag.v["kubescape"].v[key].t = "int"

EffortKeys == {"human_effort_ir", "human_effort_overrides", "human_effort", "human-effort"}

\* the flags and counts of row that the bag gives no value for are False / 0
DefaultsWhereMissing(row, bag) ==
    /\ \A f \in {"manifests_renderable", "deployment_successful",
                 "pods_ready", "services_accessible"} :
          ~HasNested(bag, "skaffold", f) => row[f] = FALSE
    /\ ~HasNested(bag, "llm_report", "aligned_to_intent") => row.llm_aligned_to_intent = FALSE
    /\ ~HasNested(bag, "manual_review", "expected_entrypoint") => row.expected_entrypoint = FALSE
    /\ ~HasNested(bag, "manual_review", "expected_behaviour") => row.expected_behaviour = FALSE
    /\ \A f \in {"added_lines", "removed_lines", "modified_lines", "total_operations"} :
          ( \A e \in EffortKeys : ~HasNested(bag, e, f) ) => row[f] = 0
    /\ ~HasNested(bag, "kubescape", "critical") => row.kubescape_critical = 0
    /\ ~HasNested(bag, "kubescape", "high") => row.kubescape_high = 0
    /\ ~HasNested(bag, "kubescape", "medium") => row.kubescape_medium = 0
    /\ ~HasNested(bag, "kubescape", "low") => row.kubescape_low = 0
    /\ ~HasNested(bag, "kubescape", "total_controls") => row.kubescape_total_controls = 0
    /\ "cluster_lines" \notin DOMAIN bag.v => row.cluster_lines = 0

\* C18: for a results mapping of well-typed bags, flatten_results does not
\* raise and returns exactly one row per (stage, application) pair of the
\* input, so (stage, app) is unique among the rows; a flag or count whose
\* nested key is missing in the bag is False or 0 in the row.
C18_OneRowPerPairWithDefaults ==
    ( /\ Flattened
      /\ \A p \in InputPairs : WellTypedBag(results[p[1]][p[2]]) ) =>
        /\ Len(df) = Cardinality(InputPairs)
        /\ \A p \in InputPairs :
              \E k \in 1..Len(df) :
                  /\ df[k].stage = p[1] /\ df[k].app = p[2]
                  /\ \A j \in 1..Len(df) :
                        ( df[j].stage = p[1] /\ df[j].app = p[2] ) => j = k
        /\ \A k \in 1..Len(df) :
              DefaultsWhereMissing(df[k], results[df[k].stage][df[k].app])

\* an application with an empty metrics bag next to one with a full bag:
\* both have their row, the row of the empty bag holds only defaults
C18_Witness ==
    /\ pc = "done"
    /\ Len(df) >= 2
    /\ \E k \in 1..Len(df) :
          /\ results[df[k].stage][df[k].app] = PyDict(<<>>)
          /\ ~df[k].manifests_renderable /\ ~df[k].expected_behaviour
          /\ df[k].total_operations = 0 /\ df[k].kubescape_total_controls = 0
          /\ df[k].he_source = PyNone
    /\ \E k \in 1..Len(df) : df[k].total_operations = 5 /\ df[k].kubescape_high = 1

\* C19: a metrics bag that is not a mapping, or a numeric field that holds
\* no number, does not abort the extraction: flatten_results does not raise
\* and every application of the input, the malformed one and the others,
\* has its row.
C19_MalformedBagDoesNotAbort ==
    Flattened =>
        \A p \in InputPairs :
            \E k \in 1..Len(df) : df[k].stage = p[1] /\ df[k].app = p[2]

\* the rank of a candidate key: 1 is tried first
CandidateRank(e) ==
    CASE e = "human_effort_ir"        -> 1
      [] e = "human_effort_overrides" -> 2
      [] e = "human_effort"           -> 3
      [] e = "human-effort"           -> 4

\* the count the sub-record `sub` gives for `field`: N for a bare N and for
\* {"total": N}, else 0
CountIn(sub, field) ==
    IF sub.t # "dict" \/ field \notin DOMAIN sub.v THEN 0
    ELSE IF sub.v[field].t = "int" THEN sub.v[field].v
    ELSE IF sub.v[field].t = "dict" /\ "total" \in DOMAIN sub.v[field].v
         THEN sub.v[field].v["total"].v
    ELSE 0

\* C20: he_source is the candidate key of highest priority (human_effort_ir,
\* human_effort_overrides, human_effort, human-effort) that is present in
\* the metrics bag, None iff none is present, and the four effort counts of
\* the row are those of the sub-record under that key only.
C20_FirstPresentCandidate ==
    \A k \in 1..Len(df) :
        LET bag     == results[df[k].stage][df[k].app]
            present == EffortKeys \cap DOMAIN bag.v
        IN  /\ df[k].he_source = PyNone <=> present = {}
            /\ present # {} =>
                  \E e \in present :
                      /\ \A o \in present : CandidateRank(e) <= CandidateRank(o)
                      /\ df[k].he_source = PyStr(e)
                      /\ df[k].added_lines = CountIn(bag.v[e], "added_lines")
                      /\ df[k].removed_lines = CountIn(bag.v[e], "removed_lines")
                      /\ df[k].modified_lines = CountIn(bag.v[e], "modified_lines")
                      /\ df[k].total_operations = CountIn(bag.v[e], "total_operations")

\* a bag with human_effort_ir and human_effort gives the counts of
\* human_effort_ir; a bag whose human_effort_overrides is null and whose
\* human-effort has counts gives human_effort_overrides and zero counts
C20_Witness ==
    /\ pc = "done"
    /\ \E k \in 1..Len(df) :
          /\ {"human_effort_ir", "human_effort"} \subseteq DOMAIN results[df[k].stage][df[k].app].v
          /\ df[k].he_source = PyStr("human_effort_ir")
          /\ df[k].total_operations = 10
    /\ \E k \in 1..Len(df) :
          /\ "human-effort" \in DOMAIN results[df[k].stage][df[k].app].v
          /\ df[k].he_source = PyStr("human_effort_overrides")
          /\ df[k].total_operations = 0

(***************************************************************************)
(* C21                                                                     *)
(***************************************************************************)
\* the human-effort sub-record flatten_results reads for the row
SubRecordOf(row) == results[row.stage][row.app].v[row.he_source.v]

\* C21: for each of added_lines, removed_lines, modified_lines and
\* total_operations, a sub-record value {"total": N} and a bare integer N
\* both give the row the integer N.
C21_NestedAndBareAgree ==
    \A k \in 1..Len(df) : \A f \in Range(EffortFields) :
        LET bag == results[df[k].stage][df[k].app]
        IN  (/\ bag.t = "dict" /\ df[k].he_source # PyNone
             /\ SubRecordOf(df[k]).t = "dict"
             /\ f \in DOMAIN SubRecordOf(df[k]).v) =>
                \A N \in 0..10 :
                    SubRecordOf(df[k]).v[f] \in {PyInt(N), PyDict([total |-> PyInt(N)])}
                        => df[k][f] = N

\* one row read from four {"total": 7} values and one read from four bare
\* 7 values, both holding 7 in each of the four fields
C21_Witness ==
    \E k, j \in 1..Len(df) :
        /\ df[k].he_source = PyStr("human_effort") /\ df[j].he_source = PyStr("human_effort")
        /\ \A f \in Range(EffortFields) :
              /\ f \in DOMAIN SubRecordOf(df[k]).v \cap DOMAIN SubRecordOf(df[j]).v
              /\ SubRecordOf(df[k]).v[f] = PyDict([total |-> PyInt(7)])
              /\ SubRecordOf(df[j]).v[f] = PyInt(7)
              /\ df[k][f] = 7 /\ df[j][f] = 7

(***************************************************************************)
(* C22                                                                     *)
(***************************************************************************)
\* two reported numbers are the same number (nan only equals nan here)
SameNumber(x, y) ==
    /\ x.nan = y.nan
    /\ ~x.nan => x.num * y.den = y.num * x.den

\* C22: for every stage, the agreement count, the agreement rate and
\* Cohen's kappa of the summary row are those obtained when the two judgment
\* columns are swapped (the LLM column taken as the first rater, the human
\* column as the second).
C22_AgreementSymmetric ==
    \A k \in 1..Len(summary_rows) :
        LET row   == summary_rows[k]
            human == Column(df_align, row.stage, "human_tested")
            llm   == Column(df_align, row.stage, "llm_expected")
        IN  /\ row.agreement = Agreement(llm, human)
            /\ SameNumber(row.agreement_pct, Quot(Agreement(llm, human) * 100, row.n))
            /\ SameNumber(row.kappa, cohen_kappa_score(llm, human))

\* a stage whose two columns differ in their number of positives, with
\* partial agreement and a kappa that is a number other than zero
C22_Witness ==
    /\ pc = "done"
    /\ \E k \in 1..Len(summary_rows) :
          /\ summary_rows[k].llm_positive_count # summary_rows[k].human_positive_count
          /\ summary_rows[k].agreement \notin {0, summary_rows[k].n}
          /\ ~summary_rows[k].kappa.nan /\ summary_rows[k].kappa.num # 0

(***************************************************************************)
(* C23                                                                     *)
(***************************************************************************)
\* one of the two judgment columns of the stage holds a single value
ZeroVariance(row) ==
    \/ row.llm_positive_count \in {0, row.n}
    \/ row.human_positive_count \in {0, row.n}

\* both columns hold one and the same value for every application
SameConstant(row) ==
    /\ row.llm_positive_count = row.human_positive_count
    /\ row.llm_positive_count \in {0, row.n}

IsZero(x) == ~x.nan /\ x.num = 0

\* the stages main's alignment step found records for
AlignedStages == {df_align[k].stage : k \in 1..Len(df_align)}

C29_ExtractionPathsAgree ==
    \A j \in 1..Len(df_align) : \A k \in 1..Len(df) :
        ( df[k].stage = df_align[j].stage /\ df[k].app = df_align[j].app ) =>
            /\ df[k].llm_aligned_to_intent = df_align[j].llm_expected
            /\ df[k].expected_behaviour = df_align[j].human_tested

(***************************************************************************)
(* C24                                                                     *)
(***************************************************************************)
\* what main prints about its input and its end
Messages ==
    {"File not found", "Repository metadata CSV not found",
     "No rows extracted from JSON", "Skipping Drift Analysis", "Analysis complete"}

IsStep(entry) == entry \notin Messages

\* the steps of main in the order of analysis.py, lines 45-79
StepsOfMain ==
    <<"analyze_repository_metadata", "flatten_results", "plot_success_rates",
      "plot_per_metric_success_rates", "run_mcnemar_pairwise", "analyze_human_effort",
      "analyze_kubescape", "analyze_kubescape_paired", "analyze_llm_human_alignment",
      "analyze_drift_quality">>

\* C24: a missing repository-metadata CSV or diff JSON is reported and only
\* its own analysis is skipped: main goes on with the next step, no
\* exception follows from the missing file, and a run on extracted rows that
\* ends normally has entered every other step, in order, and printed the
\* completion message.  Of the three files only the missing primary input
\* ends the run at once, before any analysis step.
C24_MissingFileSkipsOnlyItsStep ==
    /\ ~files["path"] =>
          /\ pc \in {"start", "done"}
          /\ pc = "done" => log = <<"File not found">>
          /\ df = <<>> /\ comparisons = <<>> /\ mwu_results = <<>>
          /\ success_rates = <<>> /\ metric_success = <<>>
          /\ summary_rows = <<>> /\ df_align = <<>> /\ records = <<>>
    /\ ( files["path"] /\ pc # "start" ) =>
          /\ log[1] = "analyze_repository_metadata"
          /\ "Repository metadata CSV not found" \in Range(log) <=> ~files["repo_csv"]
          /\ ~files["repo_csv"] =>
                /\ log[2] = "Repository metadata CSV not found"
                /\ pc # "main" => Len(log) >= 3 /\ log[3] = "flatten_results"
    /\ "Skipping Drift Analysis" \in Range(log) =>
          /\ ~files["diff_json"] /\ pc = "done"
          /\ log[Len(log)] = "Analysis complete"
          /\ data = <<>> /\ records = <<>>
    /\ ( pc = "done" /\ files["path"] /\ "No rows extracted from JSON" \notin Range(log) ) =>
          /\ log[Len(log)] = "Analysis complete"
          /\ SelectSeq(log, IsStep) =
                IF files["diff_json"] THEN StepsOfMain
                ELSE SubSeq(StepsOfMain, 1, Len(StepsOfMain) - 1)
    /\ pc = "raised" => IsStep(log[Len(log)])

\* a run without repository-metadata CSV and without diff JSON that printed
\* both messages, performed the comparisons and ended with the completion
\* message
C24_Witness ==
    /\ pc = "done"
    /\ files["path"] /\ ~files["repo_csv"] /\ ~files["diff_json"]
    /\ "Repository metadata CSV not found" \in Range(log)
    /\ "Skipping Drift Analysis" \in Range(log)
    /\ log[Len(log)] = "Analysis complete"
    /\ comparisons # <<>> /\ mwu_results # <<>> /\ summary_rows # <<>>

(***************************************************************************)
(* C25, C26                                                                *)
(***************************************************************************)
\* the issues of the diff-metrics mapping
IssuesOf(d) ==
    UNION { UNION { IF "issues_by_severity" \notin DOMAIN d[s][a] THEN {}
                    ELSE UNION { Range(d[s][a]["issues_by_severity"][t]) :
                                    t \in DOMAIN d[s][a]["issues_by_severity"] }
                    : a \in DOMAIN d[s] } : s \in DOMAIN d }

\* C25: no step of analyze_drift_quality changes the loaded mapping: every
\* issue keeps its fields and values while it is classified and flattened,
\* and no issue ever holds a category.
C25_InputIsReadOnly ==
    /\ [][data' = data]_vars
    /\ [](\A i \in IssuesOf(data) : "category" \notin DOMAIN i)

\* the loop has classified issues of all three categories, the statistics
\* and tests have run, and the mapping still holds its issues
C25_Witness ==
    /\ pc = "done"
    /\ \A c \in Categories : \E k \in 1..Len(records) : records[k].category = c
    /\ Cardinality(IssuesOf(data)) >= 3

RecordsOfTier(s, a, t) ==
    SelectSeq(records, LAMBDA r : r.stage = s /\ r.app = a /\ r.original_severity = t)

\* C27: an issue that analyze_drift_quality finds listed under the CRITICAL
\* or HIGH tier, that has no reviewed level, matches no enhancement rule and
\* no benign pattern, is counted as Error.
C27_TierIsAutomaticSeverity ==
    pc # "flatten" =>
        \A s \in DOMAIN data : \A a \in DOMAIN data[s] :
            "issues_by_severity" \in DOMAIN data[s][a] =>
                \A t \in DOMAIN data[s][a]["issues_by_severity"] \cap {"CRITICAL", "HIGH"} :
                    LET issues == data[s][a]["issues_by_severity"][t]
                    IN  \A k \in 1..Len(issues) :
                            ( /\ "reviewed_level" \notin DOMAIN issues[k]
                              /\ ~EnhancementRuleMatches(issues[k])
                              /\ ~BenignPattern(issues[k]) )
                            => RecordsOfTier(s, a, t)[k].category = "Error"

(***************************************************************************)
(* C28                                                                     *)
(***************************************************************************)
\* the sum of F(x) over the elements x of the finite set S
RECURSIVE SumOf(_, _)
SumOf(F(_), S) ==
    IF S = {} THEN 0
    ELSE LET x == CHOOSE y \in S : TRUE IN F(x) + SumOf(F, S \ {x})

\* the number of issues the mapping lists, over all stages, applications
\* and tiers
IssuesRead(d) ==
    LET Listed == { <<s, a, t>> \in (DOMAIN d) \X Range(AppNames) \X Range(TierOrder) :
                        /\ a \in DOMAIN d[s]
                        /\ "issues_by_severity" \in DOMAIN d[s][a]
                        /\ t \in DOMAIN d[s][a]["issues_by_severity"] }
        Length(x) == Len(d[x[1]][x[2]]["issues_by_severity"][x[3]])
    IN  SumOf(Length, Listed)

\* the sum of all cells of the stage x category table
CellsTotal(table) ==
    LET Cells == (DOMAIN table) \X Categories
        Cell(x) == table[x[1]][x[2]]
    IN  SumOf(Cell, Cells)

\* C28: every issue of the input has one record, and the cells of the stage
\* x category count table sum to the number of records: no record is left
\* out of the table.
C28_RecordsConserved ==
    /\ pc # "flatten" => Len(records) = IssuesRead(data)
    /\ pc \in {"tests", "done"} => CellsTotal(stats.table) = Len(records)

(***************************************************************************)
(* C30                                                                     *)
(***************************************************************************)
\* what the input holds as total_controls of the application (None when it
\* holds nothing)
TotalControls(s, app) ==
    safe_get(results[s][app], <<"kubescape", "total_controls">>, PyNone)

\* C30: for the two stages analyze_kubescape_paired compares, the
\* applications analyze_kubescape takes a record from are those
\* analyze_kubescape_paired takes a row from, and they are the applications
\* whose total_controls is a positive number, so that neither divides by zero.
C30_PositiveTotalsInBoth ==
    "analyze_kubescape_paired" \in Range(log) =>
        \A s \in {"with_ir", "with_ir_corrected"} \cap DOMAIN results :
            LET positive == {app \in DOMAIN results[s] :
                                /\ TotalControls(s, app).t = "int"
                                /\ TotalControls(s, app).v > 0}
            IN  /\ KubescapeRecords(results, s) = positive
                /\ DOMAIN KubescapeRows(results, s) = positive
                /\ \A app \in DOMAIN KubescapeRows(results, s) :
                      KubescapeRows(results, s)[app].total_controls # 0

=============================================================================
